---- MODULE Spec2Model ----
(***************************************************************************)
(* State-machine model of the 3D kd-tree (KDTreeCore) of raysect:          *)
(* construction with the surface-area heuristic, pickling, ray and point   *)
(* queries, and the manual management of the node array and of the leaf    *)
(* item arrays.                                                            *)
(*                                                                         *)
(* Numbers.  Coordinates are integers counting half units (a model value   *)
(* v stands for the coordinate v / 2), so that the points and rays with    *)
(* coordinates such as 0.5 and 2.5 are exact.  Ray directions have         *)
(* components in {-1, 0, 1}, which keeps every plane distance              *)
(* (split - origin) / direction an integer.  empty_bonus counts tenths.    *)
(* SAH costs are compared exactly, scaled by 10 * (surface area of the     *)
(* node bounds); the surface-area ratio is invariant under the coordinate  *)
(* scaling.                                                                *)
(***************************************************************************)
EXTENDS Integers, Sequences, FiniteSets, TLC

(***************************************************************************)
(* Program constants                                                       *)
(***************************************************************************)
INITIAL_NODE_COUNT == 128
ROOT_NODE == 0
LEAF == -1
X_AXIS == 0
Y_AXIS == 1
Z_AXIS == 2

DEFAULT_MAX_DEPTH == 0
DEFAULT_MIN_ITEMS == 1
DEFAULT_HIT_COST == 20
\* default empty_bonus 0.2, in tenths
DEFAULT_EMPTY_BONUS == 2

(***************************************************************************)
(* Model bounds and value encodings                                        *)
(***************************************************************************)
\* longest item list handed to the constructor
MaxItems == 3
\* an operation may be told that its k-th allocation fails, 1 <= k <= MaxFail
MaxFail == 4

\* the null pointer
NULL == 0
\* content of a field that was never written (malloc / realloc garbage)
UNWRITTEN == -99
\* stands for the infinite extent of the null bounding box
INF == 1000
\* denominator of the empty_bonus encoding (tenths)
EB_DEN == 10

Max(a, b) == IF a >= b THEN a ELSE b
Min(a, b) == IF a <= b THEN a ELSE b

Axes == {X_AXIS, Y_AXIS, Z_AXIS}
\* a point or vector <<x, y, z>>; axis a is component a + 1
get_index(p, axis) == p[axis + 1]
set_index(p, axis, v) == [p EXCEPT ![axis + 1] = v]

(***************************************************************************)
(* BoundingBox (interface of raysect.core.acceleration.boundingbox)        *)
(***************************************************************************)
Box(lx, ux, ly, uy, lz, uz) == [lower |-> <<lx, ly, lz>>, upper |-> <<ux, uy, uz>>]

\* BoundingBox(): the null box, neutral for union
NullBox == [lower |-> <<INF, INF, INF>>, upper |-> <<-INF, -INF, -INF>>]

\* bounds.union(box)
BoxUnion(b, c) ==
    [lower |-> [i \in 1..3 |-> Min(b.lower[i], c.lower[i])],
     upper |-> [i \in 1..3 |-> Max(b.upper[i], c.upper[i])]]

Extent(b, axis) == get_index(b.upper, axis) - get_index(b.lower, axis)

\* 2 (dx dy + dy dz + dz dx)
surface_area(b) ==
    2 * (Extent(b, 0) * Extent(b, 1) + Extent(b, 1) * Extent(b, 2) + Extent(b, 2) * Extent(b, 0))

\* axis of greatest extent, ties to the lowest axis index
largest_axis(b) ==
    IF Extent(b, 0) >= Extent(b, 1) /\ Extent(b, 0) >= Extent(b, 2) THEN X_AXIS
    ELSE IF Extent(b, 1) >= Extent(b, 2) THEN Y_AXIS
    ELSE Z_AXIS

\* contains(point), inclusive on all faces
BoxContains(b, p) ==
    \A i \in 1..3 : b.lower[i] <= p[i] /\ p[i] <= b.upper[i]

\* box b encloses box c
BoxEncloses(b, c) ==
    \A i \in 1..3 : b.lower[i] <= c.lower[i] /\ c.upper[i] <= b.upper[i]

\* slab of one axis: <<miss, t_near, t_far>> for a ray = [origin, direction]
Slab(b, ray, axis) ==
    LET o == get_index(ray.origin, axis)
        d == get_index(ray.direction, axis)
        lo == get_index(b.lower, axis)
        hi == get_index(b.upper, axis)
    IN  IF d = 0
        THEN IF o < lo \/ o > hi THEN <<TRUE, INF, -INF>> ELSE <<FALSE, -INF, INF>>
        ELSE LET t1 == (lo - o) * d    \* d in {-1, 1}: division is multiplication
                 t2 == (hi - o) * d
             IN  <<FALSE, Min(t1, t2), Max(t1, t2)>>

\* full_intersection(ray) -> [hit, min_range, max_range]
full_intersection(b, ray) ==
    LET sx == Slab(b, ray, 0)
        sy == Slab(b, ray, 1)
        sz == Slab(b, ray, 2)
        front == Max(sx[2], Max(sy[2], sz[2]))
        back == Min(sx[3], Min(sy[3], sz[3]))
        miss == sx[1] \/ sy[1] \/ sz[1] \/ front > back \/ (front < 0 /\ back < 0)
    IN  [hit |-> ~miss, min_range |-> front, max_range |-> back]

(***************************************************************************)
(* Inputs: items                                                           *)
(***************************************************************************)
\* the boxes items are drawn from (half units):
\*   three unit cubes in a row along x, a cube touching two of them,
\*   a plate of zero thickness between two of them, two slabs stacked in y
BoxS0 == Box(0, 2, 0, 2, 0, 2)
BoxS1 == Box(4, 6, 0, 2, 0, 2)
BoxS2 == Box(8, 10, 0, 2, 0, 2)
BoxT == Box(2, 4, 0, 2, 0, 2)
BoxF == Box(3, 3, 0, 2, 0, 2)
BoxG0 == Box(0, 4, 0, 1, 0, 2)
BoxG1 == Box(0, 4, 2, 3, 0, 2)
Boxes == {BoxS0, BoxS1, BoxS2, BoxT, BoxF, BoxG0, BoxG1}

\* Item(id, box); the id of an item is its position in the list
Item(id, box) == [id |-> id, box |-> box]

\* the item lists a tree is constructed from: 1..MaxItems distinct boxes
ItemLists ==
    UNION {{[i \in 1..n |-> Item(i - 1, s[i])] :
               s \in {f \in [1..n -> Boxes] : \A i, j \in 1..n : i # j => f[i] # f[j]}} :
           n \in 1..MaxItems}

\* items 0, 1, 2 of the three-box scenario
ThreeBoxes == <<Item(0, BoxS0), Item(1, BoxS1), Item(2, BoxS2)>>

(***************************************************************************)
(* The tree object together with the heap it allocates from.  T is a       *)
(* record                                                                  *)
(*   _nodes            address of the node array, NULL when there is none  *)
(*   slots             the node slots handed out so far: slot id is        *)
(*                     slots[id + 1], with fields type, split, count, items*)
(*   _allocated_nodes  slots the node array has room for                   *)
(*   _next_node        slots handed out                                    *)
(*   bounds            the tree bounds                                     *)
(*   settings          [max_depth, min_items, hit_cost, empty_bonus]       *)
(*   heap              live allocations: address -> content                *)
(*   nalloc            allocations requested so far in this operation      *)
(*   failAt            the allocation that fails (0: none)                 *)
(*   err               "none" or the exception that is propagating         *)
(*   ret               return value of the last call                       *)
(*   uninit_read       a never-written field was read                      *)
(*   bad_free          a pointer that is not a live allocation was freed   *)
(***************************************************************************)
\* a node slot as _new_node hands it out: nothing written yet
UnwrittenNode == [type |-> UNWRITTEN, split |-> UNWRITTEN, count |-> UNWRITTEN, items |-> UNWRITTEN]

\* lowest free address
FreshAddr(heap) == CHOOSE a \in 1..(Cardinality(DOMAIN heap) + 1) :
                      a \notin DOMAIN heap /\ \A b \in 1..(a - 1) : b \in DOMAIN heap

HeapRemove(heap, a) == [b \in (DOMAIN heap) \ {a} |-> heap[b]]
HeapAdd(heap, a, v) == [b \in (DOMAIN heap) \cup {a} |-> IF b = a THEN v ELSE heap[b]]

\* _new_node
_new_node(T) ==
    IF T._next_node = T._allocated_nodes
    THEN LET new_size == Max(INITIAL_NODE_COUNT, T._allocated_nodes * 2)
             n == T.nalloc + 1
         IN  IF n = T.failAt
             THEN [T EXCEPT !.nalloc = n, !.err = "MemoryError"]
             ELSE LET h1 == IF T._nodes = NULL THEN T.heap ELSE HeapRemove(T.heap, T._nodes)
                      \* PyMem_Realloc grows the block in place or moves it
                      a == IF T._nodes # NULL /\ ~T.moves THEN T._nodes ELSE FreshAddr(T.heap)
                  IN  [T EXCEPT !.nalloc = n,
                                !.heap = HeapAdd(h1, a, <<>>),
                                !._nodes = a,
                                !._allocated_nodes = new_size,
                                !.slots = Append(T.slots, UnwrittenNode),
                                !._next_node = T._next_node + 1,
                                !.ret = T._next_node]
    ELSE [T EXCEPT !.slots = Append(T.slots, UnwrittenNode),
                   !._next_node = T._next_node + 1,
                   !.ret = T._next_node]

\* self._nodes[id].<field> = ... : a write to slot id of the array at address
\* nodes.  It lands in the slot when nodes is the live array; the write is
\* logged with the array that was live when the slot was taken
WriteSlot(T, nodes, taken, id, is_branch, type, split, count) ==
    LET entry == [id |-> id, is_branch |-> is_branch, nodes |-> nodes, taken |-> taken,
                  live |-> T._nodes, used |-> T._next_node,
                  children |-> IF is_branch
                               THEN {T.slots[id + 2].type, T.slots[count + 1].type}
                               ELSE {}]
    IN  IF nodes = T._nodes
        THEN [T EXCEPT !.slots[id + 1].type = type,
                       !.slots[id + 1].split = split,
                       !.slots[id + 1].count = count,
                       !.writes = Append(@, entry)]
        ELSE [T EXCEPT !.writes = Append(@, entry)]

\* _new_leaf
_new_leaf(T, items) ==
    LET count == Len(items)
        T1 == _new_node(T)
        id == T1.ret
        T2 == WriteSlot(T1, T1._nodes, T1._nodes, id, FALSE, LEAF, T1.slots[id + 1].split, count)
        n == T2.nalloc + 1
    IN  IF T1.err # "none" THEN T1
        ELSE IF count > 0
        THEN IF n = T2.failAt
             THEN [T2 EXCEPT !.nalloc = n, !.slots[id + 1].items = NULL, !.err = "MemoryError"]
             ELSE LET a == FreshAddr(T2.heap)
                  IN  [T2 EXCEPT !.nalloc = n,
                                 !.slots[id + 1].items = a,
                                 !.heap = HeapAdd(T2.heap, a, [i \in 1..count |-> items[i].id]),
                                 !.ret = id]
        ELSE [T2 EXCEPT !.ret = id]

(***************************************************************************)
(* Candidate edges                                                         *)
(***************************************************************************)
\* edge: [is_upper_edge, value]
\* _edge_compare(e1, e2): negative when e1 sorts before e2
_edge_compare(e1, e2) ==
    IF e1.value = e2.value
    THEN IF e2.is_upper_edge THEN -1 ELSE 1
    ELSE IF e1.value < e2.value THEN -1 ELSE 1

RECURSIVE InsertEdge(_, _)
\* insert e into the sorted sequence s, before the first element it precedes
InsertEdge(s, e) ==
    IF s = <<>> THEN <<e>>
    ELSE IF _edge_compare(e, s[1]) < 0
         THEN <<e>> \o s
         ELSE <<s[1]>> \o InsertEdge(Tail(s), e)

RECURSIVE SortEdges(_)
\* qsort(edges, count, sizeof(edge), _edge_compare)
SortEdges(s) ==
    IF s = <<>> THEN <<>> ELSE InsertEdge(SortEdges(Tail(s)), s[1])

\* the unsorted edge array: lower edge of item k at 2k, upper edge at 2k + 1
RawEdges(items, axis) ==
    [k \in 1..(2 * Len(items)) |->
        IF k % 2 = 1
        THEN [is_upper_edge |-> FALSE, value |-> get_index(items[(k + 1) \div 2].box.lower, axis)]
        ELSE [is_upper_edge |-> TRUE, value |-> get_index(items[k \div 2].box.upper, axis)]]

\* _get_edges: T.ret is the sorted edge array; the array is one allocation
_get_edges(T, items, axis) ==
    LET n == T.nalloc + 1
    IN  IF n = T.failAt
        THEN [T EXCEPT !.nalloc = n, !.err = "MemoryError"]
        ELSE [T EXCEPT !.nalloc = n, !.ret = SortEdges(RawEdges(items, axis))]

\* _get_lower_bounds
_get_lower_bounds(bounds, split, axis) ==
    [lower |-> bounds.lower, upper |-> set_index(bounds.upper, axis, split)]

\* _get_upper_bounds
_get_upper_bounds(bounds, split, axis) ==
    [lower |-> set_index(bounds.lower, axis, split), upper |-> bounds.upper]

(***************************************************************************)
(* SAH split search.  cfg = [max_depth, min_items, hit_cost, empty_bonus]  *)
(***************************************************************************)
\* cost of a candidate, times EB_DEN * surface_area(bounds):
\*   cost = 1 + bonus * (lower_sa * lower_count + upper_sa * upper_count) / total_sa * hit_cost
ScaledCost(cfg, bounds, split, axis, lower_count, upper_count) ==
    LET lower_sa == surface_area(_get_lower_bounds(bounds, split, axis))
        upper_sa == surface_area(_get_upper_bounds(bounds, split, axis))
        bonus == IF lower_count = 0 \/ upper_count = 0 THEN EB_DEN - cfg.empty_bonus ELSE EB_DEN
    IN  EB_DEN * surface_area(bounds)
        + bonus * (lower_sa * lower_count + upper_sa * upper_count) * cfg.hit_cost

\* cost of keeping the node a leaf, on the same scale
ScaledLeafCost(cfg, bounds, items) ==
    Len(items) * cfg.hit_cost * EB_DEN * surface_area(bounds)

RECURSIVE Sweep(_, _, _, _, _, _, _, _)
\* the scan over the sorted edges of one axis, from edge index on;
\* best = [cost, split, axis, is_leaf] with, for the properties, the counts
\* that entered the best cost and the candidates evaluated so far
Sweep(cfg, bounds, axis, edges, index, lower_count, upper_count, best) ==
    IF index > Len(edges) THEN best
    ELSE LET e == edges[index]
             uc == IF e.is_upper_edge THEN upper_count - 1 ELSE upper_count
             split == e.value
             inside == get_index(bounds.lower, axis) < split /\ split < get_index(bounds.upper, axis)
             cost == ScaledCost(cfg, bounds, split, axis, lower_count, uc)
             seen == IF inside
                     THEN Append(best.evaluated,
                                 [axis |-> axis, split |-> split, lower_count |-> lower_count,
                                  upper_count |-> uc, cost |-> cost])
                     ELSE best.evaluated
             b1 == IF inside /\ cost < best.cost
                   THEN [cost |-> cost, split |-> split, axis |-> axis, is_leaf |-> FALSE,
                         lower_count |-> lower_count, upper_count |-> uc,
                         evaluated |-> seen, tried |-> best.tried]
                   ELSE [best EXCEPT !.evaluated = seen]
             lc == IF ~e.is_upper_edge THEN lower_count + 1 ELSE lower_count
         IN  Sweep(cfg, bounds, axis, edges, index + 1, lc, uc, b1)

RECURSIVE SplitAxes(_, _, _, _, _)
\* the loop over the axes gone wrong: every axis is searched
SplitAxes_every_axis(T, items, bounds, axes, best) ==
    IF axes = <<>> THEN [T EXCEPT !.ret = best]
    ELSE LET T1 == _get_edges(T, items, axes[1])
             b1 == Sweep(T.settings, bounds, axes[1], T1.ret, 1, 0, Len(items),
                         [best EXCEPT !.tried = Append(@, axes[1])])
         IN  IF T1.err # "none" THEN T1
             ELSE SplitAxes(T1, items, bounds, Tail(axes), b1)

\* the loop over the axes, left when an axis produced a split
SplitAxes(T, items, bounds, axes, best) ==
    IF axes = <<>> THEN [T EXCEPT !.ret = best]
    ELSE LET T1 == _get_edges(T, items, axes[1])
             b1 == Sweep(T.settings, bounds, axes[1], T1.ret, 1, 0, Len(items),
                         [best EXCEPT !.tried = Append(@, axes[1])])
         IN  IF T1.err # "none" THEN T1
             ELSE IF ~b1.is_leaf THEN [T1 EXCEPT !.ret = b1]
             ELSE SplitAxes(T1, items, bounds, Tail(axes), b1)

\* the order in which _split tries the axes
AxisOrder(bounds) ==
    LET longest_axis == largest_axis(bounds)
    IN  <<longest_axis, (longest_axis + 1) % 3, (longest_axis + 2) % 3>>

\* the lower list gone wrong: items that start on the plane are taken too
LowerItems_inclusive(items, axis, split) ==
    LET InLower(item) == get_index(item.box.lower, axis) <= split
    IN  SelectSeq(items, InLower)

\* items present in the lower node
LowerItems(items, axis, split) ==
    LET InLower(item) == get_index(item.box.lower, axis) < split
    IN  SelectSeq(items, InLower)

\* items present in the upper node
UpperItems(items, axis, split) ==
    LET InUpper(item) == get_index(item.box.upper, axis) > split
    IN  SelectSeq(items, InUpper)

\* the search before any axis is tried: the cost to beat is that of a leaf
NoSplit(cfg, bounds, items) ==
    [cost |-> ScaledLeafCost(cfg, bounds, items), split |-> 0, axis |-> -1, is_leaf |-> TRUE,
     lower_count |-> 0, upper_count |-> 0, evaluated |-> <<>>, tried |-> <<>>]

\* the end of _split, T1.ret being the outcome of the search: None, or the
\* solution with the items and the bounds divided at the split
SplitSolution(T1, items, bounds) ==
    LET best == T1.ret
    IN  IF T1.err # "none" THEN T1
        ELSE IF best.is_leaf
        THEN [T1 EXCEPT !.ret = [is_leaf |-> TRUE, evaluated |-> best.evaluated,
                                 tried |-> best.tried]]
        ELSE [T1 EXCEPT !.ret =
                 [is_leaf |-> FALSE,
                  cost |-> best.cost,
                  lower_count |-> best.lower_count,
                  upper_count |-> best.upper_count,
                  evaluated |-> best.evaluated,
                  tried |-> best.tried,
                  axis |-> best.axis,
                  split |-> best.split,
                  lower_items |-> LowerItems(items, best.axis, best.split),
                  lower_bounds |-> _get_lower_bounds(bounds, best.split, best.axis),
                  upper_items |-> UpperItems(items, best.axis, best.split),
                  upper_bounds |-> _get_upper_bounds(bounds, best.split, best.axis)]]

\* _split: T.ret is the split solution, with is_leaf = TRUE for None
_split(T, items, bounds) ==
    SplitSolution(SplitAxes(T, items, bounds, AxisOrder(bounds), NoSplit(T.settings, bounds, items)),
                  items, bounds)

(***************************************************************************)
(* Recursive build                                                         *)
(***************************************************************************)
RECURSIVE _build(_, _, _, _)

\* _new_branch gone wrong: the address of the node array is taken with the
\* slot, before the children are built
_new_branch_early_address(T, split_solution, depth) ==
    LET T1 == _new_node(T)
        id == T1.ret
        T2 == _build(T1, split_solution.lower_items, split_solution.lower_bounds, depth + 1)
        T3 == _build(T2, split_solution.upper_items, split_solution.upper_bounds, depth + 1)
        upper_id == T3.ret
    IN  IF T1.err # "none" THEN T1
        ELSE IF T2.err # "none" THEN T2
        ELSE IF T3.err # "none" THEN T3
        ELSE [WriteSlot(T3, T1._nodes, T1._nodes, id, TRUE, split_solution.axis,
                        split_solution.split, upper_id) EXCEPT !.ret = id]

\* _new_branch gone wrong: the upper child is built before the lower child
_new_branch_upper_first(T, split_solution, depth) ==
    LET T1 == _new_node(T)
        id == T1.ret
        T2 == _build(T1, split_solution.upper_items, split_solution.upper_bounds, depth + 1)
        upper_id == T2.ret
        T3 == _build(T2, split_solution.lower_items, split_solution.lower_bounds, depth + 1)
    IN  IF T1.err # "none" THEN T1
        ELSE IF T2.err # "none" THEN T2
        ELSE IF T3.err # "none" THEN T3
        ELSE [WriteSlot(T3, T3._nodes, T1._nodes, id, TRUE, split_solution.axis,
                        split_solution.split, upper_id) EXCEPT !.ret = id]

\* _new_branch: the slot is taken first, written after both children are built
_new_branch(T, split_solution, depth) ==
    LET T1 == _new_node(T)
        id == T1.ret
        T2 == _build(T1, split_solution.lower_items, split_solution.lower_bounds, depth + 1)
        T3 == _build(T2, split_solution.upper_items, split_solution.upper_bounds, depth + 1)
        upper_id == T3.ret
    IN  IF T1.err # "none" THEN T1
        ELSE IF T2.err # "none" THEN T2
        ELSE IF T3.err # "none" THEN T3
        ELSE [WriteSlot(T3, T3._nodes, T1._nodes, id, TRUE, split_solution.axis,
                        split_solution.split, upper_id) EXCEPT !.ret = id]

\* the node _build makes once _split has returned in T1
BuildNode(T1, items, depth) ==
    IF T1.err # "none" THEN T1
    ELSE IF T1.ret.is_leaf THEN _new_leaf(T1, items)
    ELSE _new_branch(T1, T1.ret, depth)

\* _build gone wrong: the depth of the node is not looked at
_build_at_any_depth(T, items, bounds, depth) ==
    IF Len(items) <= T.settings.min_items
    THEN _new_leaf(T, items)
    ELSE BuildNode(_split(T, items, bounds), items, depth)

\* _build
_build(T, items, bounds, depth) ==
    IF depth = T.settings.max_depth \/ Len(items) <= T.settings.min_items
    THEN _new_leaf(T, items)
    ELSE BuildNode(_split(T, items, bounds), items, depth)

(***************************************************************************)
(* Queries.  tree = [nodes, heap]; a leaf's item ids are read through its  *)
(* items pointer.                                                          *)
(***************************************************************************)
LeafItems(tree, id) ==
    LET node == tree.slots[id + 1]
    IN  [index \in 1..node.count |-> tree.heap[node.items][index]]

\* KDTree._hit_leaf with a hook that reports a hit exactly for the items of
\* hit_ids; the call is logged with its arguments and its result
_hit_leaf(tree, id, ray, max_range, hit_ids) ==
    LET ids == LeafItems(tree, id)
        found == \E index \in 1..Len(ids) : ids[index] \in hit_ids
    IN  [calls |-> <<[node |-> id, items |-> ids, max_range |-> max_range, ret |-> found]>>,
         hit |-> found, visits |-> <<>>]

RECURSIVE _hit_node(_, _, _, _, _, _)

\* _hit_branch gone wrong: the far child is searched whatever the near child reported
_hit_branch_visits_both(tree, id, ray, min_range, max_range, hit_ids) ==
    LET axis == tree.slots[id + 1].type
        split == tree.slots[id + 1].split
        lower_id == id + 1
        upper_id == tree.slots[id + 1].count
        origin == get_index(ray.origin, axis)
        direction == get_index(ray.direction, axis)
    IN  IF direction = 0
        THEN IF origin < split
             THEN _hit_node(tree, lower_id, ray, min_range, max_range, hit_ids)
             ELSE _hit_node(tree, upper_id, ray, min_range, max_range, hit_ids)
        ELSE LET plane_distance == (split - origin) * direction
                 below_split == origin < split \/ (origin = split /\ direction < 0)
                 near_id == IF below_split THEN lower_id ELSE upper_id
                 far_id == IF below_split THEN upper_id ELSE lower_id
             IN  IF plane_distance > max_range \/ plane_distance <= 0
                 THEN _hit_node(tree, near_id, ray, min_range, max_range, hit_ids)
                 ELSE IF plane_distance < min_range
                 THEN _hit_node(tree, far_id, ray, min_range, max_range, hit_ids)
                 ELSE LET near == _hit_node(tree, near_id, ray, min_range, plane_distance, hit_ids)
                          far == _hit_node(tree, far_id, ray, plane_distance, max_range, hit_ids)
                      IN  [calls |-> near.calls \o far.calls, hit |-> near.hit \/ far.hit,
                           visits |-> near.visits \o far.visits]

\* _hit_branch gone wrong: the side of the origin is taken the wrong way round
_hit_branch_far_first(tree, id, ray, min_range, max_range, hit_ids) ==
    LET axis == tree.slots[id + 1].type
        split == tree.slots[id + 1].split
        lower_id == id + 1
        upper_id == tree.slots[id + 1].count
        origin == get_index(ray.origin, axis)
        direction == get_index(ray.direction, axis)
    IN  IF direction = 0
        THEN IF origin < split
             THEN _hit_node(tree, lower_id, ray, min_range, max_range, hit_ids)
             ELSE _hit_node(tree, upper_id, ray, min_range, max_range, hit_ids)
        ELSE LET plane_distance == (split - origin) * direction
                 below_split == origin > split \/ (origin = split /\ direction > 0)
                 near_id == IF below_split THEN lower_id ELSE upper_id
                 far_id == IF below_split THEN upper_id ELSE lower_id
             IN  IF plane_distance > max_range \/ plane_distance <= 0
                 THEN _hit_node(tree, near_id, ray, min_range, max_range, hit_ids)
                 ELSE IF plane_distance < min_range
                 THEN _hit_node(tree, far_id, ray, min_range, max_range, hit_ids)
                 ELSE LET near == _hit_node(tree, near_id, ray, min_range, plane_distance, hit_ids)
                          far == _hit_node(tree, far_id, ray, plane_distance, max_range, hit_ids)
                      IN  IF near.hit
                          THEN near
                          ELSE [calls |-> near.calls \o far.calls, hit |-> far.hit,
                                visits |-> near.visits \o far.visits]

\* _hit_branch gone wrong: the ranges of the two children are not cut at the plane
_hit_branch_unclipped(tree, id, ray, min_range, max_range, hit_ids) ==
    LET axis == tree.slots[id + 1].type
        split == tree.slots[id + 1].split
        lower_id == id + 1
        upper_id == tree.slots[id + 1].count
        origin == get_index(ray.origin, axis)
        direction == get_index(ray.direction, axis)
    IN  IF direction = 0
        THEN IF origin < split
             THEN _hit_node(tree, lower_id, ray, min_range, max_range, hit_ids)
             ELSE _hit_node(tree, upper_id, ray, min_range, max_range, hit_ids)
        ELSE LET plane_distance == (split - origin) * direction
                 below_split == origin < split \/ (origin = split /\ direction < 0)
                 near_id == IF below_split THEN lower_id ELSE upper_id
                 far_id == IF below_split THEN upper_id ELSE lower_id
             IN  IF plane_distance > max_range \/ plane_distance <= 0
                 THEN _hit_node(tree, near_id, ray, min_range, max_range, hit_ids)
                 ELSE IF plane_distance < min_range
                 THEN _hit_node(tree, far_id, ray, min_range, max_range, hit_ids)
                 ELSE LET near == _hit_node(tree, near_id, ray, min_range, max_range, hit_ids)
                          far == _hit_node(tree, far_id, ray, min_range, max_range, hit_ids)
                      IN  IF near.hit
                          THEN near
                          ELSE [calls |-> near.calls \o far.calls, hit |-> far.hit,
                                visits |-> near.visits \o far.visits]

\* _hit_branch
_hit_branch(tree, id, ray, min_range, max_range, hit_ids) ==
    LET axis == tree.slots[id + 1].type
        split == tree.slots[id + 1].split
        lower_id == id + 1
        upper_id == tree.slots[id + 1].count
        origin == get_index(ray.origin, axis)
        direction == get_index(ray.direction, axis)
    IN  IF direction = 0
        THEN IF origin < split
             THEN _hit_node(tree, lower_id, ray, min_range, max_range, hit_ids)
             ELSE _hit_node(tree, upper_id, ray, min_range, max_range, hit_ids)
        ELSE LET plane_distance == (split - origin) * direction   \* direction in {-1, 1}
                 below_split == origin < split \/ (origin = split /\ direction < 0)
                 near_id == IF below_split THEN lower_id ELSE upper_id
                 far_id == IF below_split THEN upper_id ELSE lower_id
             IN  IF plane_distance > max_range \/ plane_distance <= 0
                 THEN _hit_node(tree, near_id, ray, min_range, max_range, hit_ids)
                 ELSE IF plane_distance < min_range
                 THEN _hit_node(tree, far_id, ray, min_range, max_range, hit_ids)
                 ELSE LET near == _hit_node(tree, near_id, ray, min_range, plane_distance, hit_ids)
                          far == _hit_node(tree, far_id, ray, plane_distance, max_range, hit_ids)
                      IN  IF near.hit
                          THEN near
                          ELSE [calls |-> near.calls \o far.calls, hit |-> far.hit,
                                visits |-> near.visits \o far.visits]

\* _hit_node; the call is logged (visits) with its range and its result,
\* before the calls made below it
_hit_node(tree, id, ray, min_range, max_range, hit_ids) ==
    LET r == IF tree.slots[id + 1].type = LEAF
             THEN _hit_leaf(tree, id, ray, max_range, hit_ids)
             ELSE _hit_branch(tree, id, ray, min_range, max_range, hit_ids)
    IN  [r EXCEPT !.visits = <<[node |-> id, min_range |-> min_range,
                                max_range |-> max_range, hit |-> r.hit]>> \o @]

\* _hit
_hit(tree, bounds, ray, hit_ids) ==
    LET r == full_intersection(bounds, ray)
    IN  IF ~r.hit
        THEN [calls |-> <<>>, hit |-> FALSE, visits |-> <<>>]
        ELSE _hit_node(tree, ROOT_NODE, ray, r.min_range, r.max_range, hit_ids)

\* a returned Python object: None, or a list
None == [is_none |-> TRUE, list |-> <<>>]
List(l) == [is_none |-> FALSE, list |-> l]

\* KDTree._contains_leaf with the hook that keeps the leaf's items whose box
\* encloses the point (geometry = the item list, indexed by id)
_contains_leaf(tree, geometry, id, point) ==
    LET ids == LeafItems(tree, id)
        Encloses(item_id) == BoxContains(geometry[item_id + 1].box, point)
        found == SelectSeq(ids, Encloses)
    IN  [calls |-> <<[node |-> id, items |-> ids, point |-> point, ret |-> found]>>,
         ret |-> List(found), visits |-> <<>>]

RECURSIVE _contains_node(_, _, _, _)

\* _contains_branch gone wrong: a point on the split plane goes to the lower child
_contains_branch_plane_below(tree, geometry, id, point) ==
    LET axis == tree.slots[id + 1].type
        split == tree.slots[id + 1].split
        lower_id == id + 1
        upper_id == tree.slots[id + 1].count
    IN  IF get_index(point, axis) <= split
        THEN _contains_node(tree, geometry, lower_id, point)
        ELSE _contains_node(tree, geometry, upper_id, point)

\* _contains_branch
_contains_branch(tree, geometry, id, point) ==
    LET axis == tree.slots[id + 1].type
        split == tree.slots[id + 1].split
        lower_id == id + 1
        upper_id == tree.slots[id + 1].count
    IN  IF get_index(point, axis) < split
        THEN _contains_node(tree, geometry, lower_id, point)
        ELSE _contains_node(tree, geometry, upper_id, point)

\* _contains_node; the node is logged (visits) before the nodes below it
_contains_node(tree, geometry, id, point) ==
    LET r == IF tree.slots[id + 1].type = LEAF
             THEN _contains_leaf(tree, geometry, id, point)
             ELSE _contains_branch(tree, geometry, id, point)
    IN  [r EXCEPT !.visits = <<id>> \o @]

\* _contains: the result of the search is dropped, the function falls off
\* its end and returns None
_contains(tree, geometry, bounds, point) ==
    IF ~BoxContains(bounds, point)
    THEN [calls |-> <<>>, ret |-> List(<<>>), visits |-> <<>>]
    ELSE LET r == _contains_node(tree, geometry, ROOT_NODE, point)
         IN  [calls |-> r.calls, ret |-> None, visits |-> r.visits]

(***************************************************************************)
(* Construction, pickling, destruction                                     *)
(***************************************************************************)
\* <int> ceil(8 + 1.3 * log(n)), tabulated for the list lengths of the model
AutoDepth(n) ==
    IF n = 1 THEN 8 ELSE IF n = 2 THEN 9 ELSE IF n <= 4 THEN 10 ELSE IF n <= 10 THEN 11
    ELSE IF n <= 21 THEN 12 ELSE IF n <= 46 THEN 13 ELSE 14

\* the bounds loop gone wrong: it stops after the first item
TreeBounds_first_item(items) ==
    IF items = <<>> THEN NullBox ELSE BoxUnion(NullBox, items[1].box)

RECURSIVE TreeBounds(_)
\* the union of the item boxes, taken item by item from a null box
TreeBounds(items) ==
    IF items = <<>> THEN NullBox
    ELSE BoxUnion(TreeBounds(SubSeq(items, 1, Len(items) - 1)), items[Len(items)].box)

\* __cinit__: the object before __init__ or __setstate__ ran (C fields zeroed)
__cinit__ ==
    [_nodes |-> NULL, slots |-> <<>>, _allocated_nodes |-> 0, _next_node |-> 0,
     bounds |-> NullBox,
     settings |-> [max_depth |-> 0, min_items |-> 0, hit_cost |-> 0, empty_bonus |-> 0],
     heap |-> <<>>, nalloc |-> 0, failAt |-> 0, err |-> "none", ret |-> 0,
     uninit_read |-> FALSE, bad_free |-> FALSE, moves |-> TRUE, writes |-> <<>>]

\* an operation starts: no exception pending, allocation fail of this call fails
Enter(T, fail) == [T EXCEPT !.nalloc = 0, !.failAt = fail, !.err = "none", !.ret = 0, !.writes = <<>>]
\* an operation is over: only the object, the heap and the exception remain
Leave(T) == [T EXCEPT !.nalloc = 0, !.failAt = 0, !.ret = 0, !.moves = TRUE, !.writes = <<>>]

\* __init__ gone wrong: min_items and hit_cost are stored as given
__init___unclamped(T, items, max_depth, min_items, hit_cost, empty_bonus) ==
    IF empty_bonus < 0 \/ empty_bonus > EB_DEN
    THEN [T EXCEPT !.err = "ValueError"]
    ELSE LET depth == Max(0, max_depth)
             T1 == [T EXCEPT !.settings =
                        [max_depth |-> IF depth = 0 THEN AutoDepth(Len(items)) ELSE depth,
                         min_items |-> min_items,
                         hit_cost |-> hit_cost,
                         empty_bonus |-> empty_bonus],
                      !.bounds = TreeBounds(items)]
         IN  _build(T1, items, T1.bounds, 0)

\* __init__(items, max_depth, min_items, hit_cost, empty_bonus)
__init__(T, items, max_depth, min_items, hit_cost, empty_bonus) ==
    IF empty_bonus < 0 \/ empty_bonus > EB_DEN
    THEN [T EXCEPT !.err = "ValueError"]
    ELSE LET depth == Max(0, max_depth)
             T1 == [T EXCEPT !.settings =
                        [max_depth |-> IF depth = 0 THEN AutoDepth(Len(items)) ELSE depth,
                         min_items |-> Max(1, min_items),
                         hit_cost |-> Max(1, hit_cost),
                         empty_bonus |-> empty_bonus],
                      !.bounds = TreeBounds(items)]
         IN  _build(T1, items, T1.bounds, 0)

\* PyMem_Free(p)
PyMem_Free(T, p) ==
    IF p = NULL THEN T
    ELSE IF p \in DOMAIN T.heap THEN [T EXCEPT !.heap = HeapRemove(T.heap, p)]
    ELSE IF p = UNWRITTEN THEN [T EXCEPT !.bad_free = TRUE, !.uninit_read = TRUE]
    ELSE [T EXCEPT !.bad_free = TRUE]

RECURSIVE FreeLeafArrays(_, _, _)
\* the loop of _reset over the slots handed out.  A slot whose type and
\* count were never written holds garbage: it reads as a non-empty leaf
\* when garbage_leaf, as anything else otherwise
FreeLeafArrays(T, index, garbage_leaf) ==
    IF index >= T._next_node THEN T
    ELSE LET node == T.slots[index + 1]
             unwritten == node.type = UNWRITTEN
             is_leaf == IF unwritten THEN garbage_leaf ELSE node.type = LEAF /\ node.count > 0
             T1 == IF unwritten THEN [T EXCEPT !.uninit_read = TRUE] ELSE T
             T2 == IF is_leaf THEN PyMem_Free(T1, node.items) ELSE T1
         IN  FreeLeafArrays(T2, index + 1, garbage_leaf)

\* _reset
_reset(T, garbage_leaf) ==
    LET T1 == FreeLeafArrays(T, 0, garbage_leaf)
        T2 == PyMem_Free(T1, T1._nodes)
    IN  [T2 EXCEPT !._nodes = NULL, !.slots = <<>>, !._allocated_nodes = 0, !._next_node = 0]

\* __dealloc__
__dealloc__(T, garbage_leaf) == _reset(T, garbage_leaf)

\* __getstate__: (bounds, nodes, settings)
__getstate__(T) ==
    LET Encode(id) ==
            IF T.slots[id + 1].type = LEAF
            THEN <<T.slots[id + 1].type,
                   [item \in 1..T.slots[id + 1].count |-> T.heap[T.slots[id + 1].items][item]]>>
            ELSE <<T.slots[id + 1].type, <<T.slots[id + 1].split, T.slots[id + 1].count>>>>
        nodes == [k \in 1..T._next_node |-> Encode(k - 1)]
        settings == <<T.settings.max_depth, T.settings.min_items,
                      T.settings.hit_cost, T.settings.empty_bonus>>
    IN  <<T.bounds, nodes, settings>>

RECURSIVE DecodeNodes(_, _, _)
\* the loop of __setstate__ over the encoded nodes, from position k on
DecodeNodes(T, nodes, k) ==
    IF k > Len(nodes) \/ T.err # "none" THEN T
    ELSE LET type == nodes[k][1]
             data == nodes[k][2]
         IN  IF type = LEAF
             THEN DecodeNodes(_new_leaf(T, [i \in 1..Len(data) |-> Item(data[i], NullBox)]),
                              nodes, k + 1)
             ELSE LET T1 == _new_node(T)
                      id == T1.ret
                  IN  IF T1.err # "none" THEN T1
                      ELSE DecodeNodes([T1 EXCEPT !.slots[id + 1].type = type,
                                                  !.slots[id + 1].split = data[1],
                                                  !.slots[id + 1].count = data[2]],
                                       nodes, k + 1)

\* __setstate__ gone wrong: the object is not reset before it is populated
__setstate___without_reset(T, state, garbage_leaf) ==
    LET T1 == [T EXCEPT !.bounds = state[1]]
        T2 == DecodeNodes(T1, state[2], 1)
        settings == state[3]
    IN  IF T2.err # "none" THEN T2
        ELSE [T2 EXCEPT !.settings = [max_depth |-> settings[1], min_items |-> settings[2],
                                      hit_cost |-> settings[3], empty_bonus |-> settings[4]]]

\* __setstate__(state)
__setstate__(T, state, garbage_leaf) ==
    LET T1 == _reset([T EXCEPT !.bounds = state[1]], garbage_leaf)
        T2 == DecodeNodes(T1, state[2], 1)
        settings == state[3]
    IN  IF T2.err # "none" THEN T2
        ELSE [T2 EXCEPT !.settings = [max_depth |-> settings[1], min_items |-> settings[2],
                                      hit_cost |-> settings[3], empty_bonus |-> settings[4]]]

(***************************************************************************)
(* Inputs of the operations                                                *)
(***************************************************************************)
\* constructor arguments <<max_depth, min_items, hit_cost, empty_bonus>>:
\* the defaults, values that are clamped, a depth limit with full bonus,
\* a leaf threshold of two, and two bonuses outside [0, 1]
InitArgs ==
    {<<DEFAULT_MAX_DEPTH, DEFAULT_MIN_ITEMS, DEFAULT_HIT_COST, DEFAULT_EMPTY_BONUS>>,
     <<-1, 0, 0, 0>>,
     <<1, 1, 20, 10>>,
     <<2, 2, 2, 5>>,
     <<0, 1, 20, -1>>,
     <<3, 1, 20, 11>>}

Ray(origin, direction) == [origin |-> origin, direction |-> direction]

\* the ray of the three-box scenario: from (-1, 0.5, 0.5) along +x
ScenarioRay == Ray(<<-2, 1, 1>>, <<1, 0, 0>>)

\* rays along the boxes, inside split planes, starting on split planes,
\* diagonal, and missing everything
Rays ==
    {ScenarioRay,
     Ray(<<12, 1, 1>>, <<-1, 0, 0>>),
     Ray(<<3, 1, -1>>, <<0, 0, 1>>),
     Ray(<<2, -1, 1>>, <<0, 1, 0>>),
     Ray(<<4, 1, 1>>, <<-1, 0, 0>>),
     Ray(<<2, 1, 1>>, <<1, 0, 0>>),
     Ray(<<1, -1, 1>>, <<0, 1, 0>>),
     Ray(<<1, 4, 1>>, <<0, -1, 0>>),
     Ray(<<-1, -1, 1>>, <<1, 1, 0>>),
     Ray(<<-2, 5, 1>>, <<1, 0, 0>>)}

\* the point of the three-box scenario: (2.5, 0.5, 0.5)
ScenarioPoint == <<5, 1, 1>>

\* points inside boxes, on box faces and split planes, and outside the bounds
Points ==
    {ScenarioPoint, <<1, 1, 1>>, <<2, 1, 1>>, <<3, 1, 1>>, <<4, 1, 1>>, <<1, 2, 1>>, <<11, 1, 1>>}

(***************************************************************************)
(* Spectral functions (SampledSF, InterpolatedSF, ConstantSF)              *)
(*                                                                         *)
(* Numbers.  A wavelength value w stands for 2.5 * w nanometres, so that   *)
(* the ranges of the model (120 = 300 nm, 240 = 600 nm, 360 = 900 nm)      *)
(* divide exactly into the bin counts and half bins used.  Doubles that    *)
(* the code can produce by dividing by zero are the values POS_INF,        *)
(* NEG_INF and NAN.  SampledSF objects live in a sequence, an object being *)
(* known by its position (PyNone for the reference None).  Sample arrays   *)
(* hold one value in every bin (flat spectra): filling, scaling and adding *)
(* keep them so, and the mean and the interpolation of flat data is that   *)
(* value.                                                                  *)
(***************************************************************************)
\* most SampledSF objects alive in a run
MaxObjects == 3
\* most SampledSF objects where objects are resampled
MaxSampled == 2
\* largest sample value in-place arithmetic of a caller is followed to
MaxValue == 2

PyNone == 0
POS_INF == 100000
NEG_INF == -100000
NAN == 99999

\* C double division without the Python zero check (cython.cdivision(True))
fdiv(a, b) ==
    IF a = NAN \/ b = NAN THEN NAN
    ELSE IF b = 0 THEN (IF a > 0 THEN POS_INF ELSE IF a < 0 THEN NEG_INF ELSE NAN)
    ELSE a \div b

fmul(a, b) == IF a = NAN \/ b = NAN THEN NAN ELSE a * b
fadd(a, b) == IF a = NAN \/ b = NAN THEN NAN ELSE a + b

\* SampledSF._construct: the fields, zero-filled bins, wavelengths on demand
_construct(min_wavelength, max_wavelength, num_samples, fast_sample) ==
    [min_wavelength   |-> min_wavelength,
     max_wavelength   |-> max_wavelength,
     num_samples      |-> num_samples,
     delta_wavelength |-> fdiv(max_wavelength - min_wavelength, num_samples),
     fast_sample      |-> fast_sample,
     samples          |-> [index \in 1..num_samples |-> 0],
     _wavelengths     |-> None]

\* new_sampledsf: a new object at the end of the object sequence; the
\* result is <<objects, reference>>
new_sampledsf(objs, min_wavelength, max_wavelength, num_samples) ==
    <<Append(objs, _construct(min_wavelength, max_wavelength, num_samples, FALSE)),
      Len(objs) + 1>>

\* SampledSF.is_shaped
is_shaped(self, min_wavelength, max_wavelength, num_samples) ==
    /\ self.min_wavelength = min_wavelength
    /\ self.max_wavelength = max_wavelength
    /\ self.num_samples = num_samples

\* SampledSF._populate_wavelengths: bin centres, computed once
_populate_wavelengths(self) ==
    IF self._wavelengths.is_none
    THEN [self EXCEPT !._wavelengths =
            List([index \in 1..self.num_samples |->
                    self.min_wavelength + (self.delta_wavelength \div 2)
                        + (index - 1) * self.delta_wavelength])]
    ELSE self

\* interpolate(x, f, at) of raysect.core.math.utility, on flat data
interpolate(wavelengths, samples, wavelength) == samples[1]

\* integrate(x, f, lower, upper) of raysect.core.math.utility, on flat data
integrate(wavelengths, samples, lower, upper) == fmul(samples[1], upper - lower)

\* the bins a sample_multiple call computes from anchors (wavelengths, samples)
Resample(wavelengths, samples, fast_sample, s) ==
    [index \in 1..s.num_samples |->
        IF fast_sample
        THEN interpolate(wavelengths, samples,
                         s.min_wavelength + (s.delta_wavelength \div 2)
                             + (index - 1) * s.delta_wavelength)
        ELSE fdiv(integrate(wavelengths, samples,
                            s.min_wavelength + (index - 1) * s.delta_wavelength,
                            s.min_wavelength + index * s.delta_wavelength),
                  s.delta_wavelength)]

\* the outcome of a call: the objects after it, what it returned (a
\* reference for sample_multiple, a double for sample_single) and the
\* exception it raised
Outcome(objs, ret, err) == [objects |-> objs, ret |-> ret, err |-> err]

\* SampledSF.__init__
SampledSF___init__(objs, min_wavelength, max_wavelength, num_samples, fast_sample) ==
    IF num_samples < 1
    THEN Outcome(objs, PyNone, "TypeError")
    ELSE IF min_wavelength <= 0 \/ max_wavelength <= 0
    THEN Outcome(objs, PyNone, "ValueError")
    ELSE IF min_wavelength >= max_wavelength
    THEN Outcome(objs, PyNone, "ValueError")
    ELSE Outcome(Append(objs, _construct(min_wavelength, max_wavelength,
                                         num_samples, fast_sample)),
                 Len(objs) + 1, "none")

\* SampledSF.sample_single
SampledSF_sample_single(objs, self, min_wavelength, max_wavelength) ==
    IF Len(objs[self].samples) # objs[self].num_samples
    THEN Outcome(objs, PyNone, "ValueError")
    ELSE LET me == _populate_wavelengths(objs[self])
             after == [objs EXCEPT ![self] = me]
         IN  IF me.fast_sample
             THEN Outcome(after,
                          interpolate(me._wavelengths.list, me.samples,
                                      (min_wavelength + max_wavelength) \div 2),
                          "none")
             ELSE Outcome(after,
                          fdiv(integrate(me._wavelengths.list, me.samples,
                                         min_wavelength, max_wavelength),
                               max_wavelength - min_wavelength),
                          "none")

\* a sample_multiple that always builds a new object
SampledSF_sample_multiple_always_new(objs, self, min_wavelength, max_wavelength, num_samples) ==
    LET made == new_sampledsf(objs, min_wavelength, max_wavelength, num_samples)
        me == _populate_wavelengths(objs[self])
        s == made[1][made[2]]
    IN  Outcome([made[1] EXCEPT ![self] = me,
                                ![made[2]].samples =
                                    Resample(me._wavelengths.list, me.samples, me.fast_sample, s)],
                made[2], "none")

\* SampledSF.sample_multiple
SampledSF_sample_multiple(objs, self, min_wavelength, max_wavelength, num_samples) ==
    IF Len(objs[self].samples) # objs[self].num_samples
    THEN Outcome(objs, PyNone, "ValueError")
    ELSE IF is_shaped(objs[self], min_wavelength, max_wavelength, num_samples)
    THEN Outcome(objs, self, "none")
    ELSE LET made == new_sampledsf(objs, min_wavelength, max_wavelength, num_samples)
             me == _populate_wavelengths(objs[self])
             s == made[1][made[2]]
         IN  Outcome([made[1] EXCEPT ![self] = me,
                                     ![made[2]].samples =
                                         Resample(me._wavelengths.list, me.samples,
                                                  me.fast_sample, s)],
                     made[2], "none")

\* InterpolatedSF.sample_single
InterpolatedSF_sample_single(self, min_wavelength, max_wavelength) ==
    IF Len(self.samples) # Len(self.wavelengths)
    THEN [ret |-> PyNone, err |-> "ValueError"]
    ELSE IF self.fast_sample
    THEN [ret |-> interpolate(self.wavelengths, self.samples,
                              (min_wavelength + max_wavelength) \div 2),
          err |-> "none"]
    ELSE [ret |-> fdiv(integrate(self.wavelengths, self.samples,
                                 min_wavelength, max_wavelength),
                       max_wavelength - min_wavelength),
          err |-> "none"]

\* InterpolatedSF.sample_multiple
InterpolatedSF_sample_multiple(objs, self, min_wavelength, max_wavelength, num_samples) ==
    IF Len(self.samples) # Len(self.wavelengths)
    THEN Outcome(objs, PyNone, "ValueError")
    ELSE LET made == new_sampledsf(objs, min_wavelength, max_wavelength, num_samples)
             s == made[1][made[2]]
         IN  Outcome([made[1] EXCEPT ![made[2]].samples =
                         Resample(self.wavelengths, self.samples, self.fast_sample, s)],
                     made[2], "none")

\* ConstantSF.__init__
ConstantSF___init__(value) == [value |-> value, cached_samples |-> PyNone]

\* ConstantSF.sample_single
ConstantSF_sample_single(self, min_wavelength, max_wavelength) == self.value

\* the outcome of ConstantSF.sample_multiple: the objects and the receiver
\* after the call, and the reference returned
ConstantOutcome(objs, self, ret) == [objects |-> objs, self |-> self, ret |-> ret]

\* a sample_multiple that never looks at its cache
ConstantSF_sample_multiple_uncached(objs, self, min_wavelength, max_wavelength, num_samples) ==
    LET made == new_sampledsf(objs, min_wavelength, max_wavelength, num_samples)
    IN  ConstantOutcome([made[1] EXCEPT ![made[2]].samples =
                            [index \in 1..num_samples |-> self.value]],
                        [self EXCEPT !.cached_samples = made[2]],
                        made[2])

\* ConstantSF.sample_multiple
ConstantSF_sample_multiple(objs, self, min_wavelength, max_wavelength, num_samples) ==
    IF /\ self.cached_samples # PyNone
       /\ is_shaped(objs[self.cached_samples], min_wavelength, max_wavelength, num_samples)
    THEN ConstantOutcome(objs, self, self.cached_samples)
    ELSE LET made == new_sampledsf(objs, min_wavelength, max_wavelength, num_samples)
         IN  ConstantOutcome([made[1] EXCEPT ![made[2]].samples =
                                 [index \in 1..num_samples |-> self.value]],
                             [self EXCEPT !.cached_samples = made[2]],
                             made[2])

\* SampledSF.mul_scalar
mul_scalar(self, value) ==
    [self EXCEPT !.samples = [index \in 1..Len(@) |-> fmul(@[index], value)]]

\* SampledSF.add_array
add_array(self, array) ==
    [self EXCEPT !.samples = [index \in 1..Len(@) |-> fadd(@[index], array[index])]]

(***************************************************************************)
(* Inputs of the spectral operations                                       *)
(***************************************************************************)
\* sampling shapes (min_wavelength, max_wavelength, num_samples): two that
\* the specification allows, and one for each way of being out of range
ShapeA == <<120, 240, 2>>
ShapeB == <<120, 360, 3>>
ShapeNonPositive == <<0, 240, 2>>
ShapeReversed == <<240, 120, 2>>
ShapeEmptyRange == <<240, 240, 1>>
ShapeNoSamples == <<120, 240, 0>>
ValidShapes == {ShapeA, ShapeB}
InvalidShapes == {ShapeNonPositive, ShapeReversed, ShapeEmptyRange, ShapeNoSamples}
Shapes == ValidShapes \cup InvalidShapes
\* the requests made of SampledSF and InterpolatedSF objects
Requests == {ShapeA, ShapeB, ShapeReversed, ShapeNoSamples}
\* the requests made where the three kinds of spectral function are shared
BoundaryShapes == {ShapeA, ShapeReversed, ShapeNoSamples}

\* what the specification requires of a sampling shape
ValidShape(shape) == shape[1] > 0 /\ shape[2] > 0 /\ shape[1] < shape[2] /\ shape[3] >= 1

\* the shape of an object
ShapeOf(o) == <<o.min_wavelength, o.max_wavelength, o.num_samples>>

(***************************************************************************)
(* Glass: reflection and refraction at a dielectric surface                *)
(*                                                                         *)
(* Numbers.  The doubles of Glass.evaluate_surface are exact rationals     *)
(* <<numerator, denominator>> in lowest terms with a positive denominator. *)
(* The inputs are chosen so that every square root taken is rational       *)
(* (directions from the 3-4-5 triangle, indices 3/2, 4/3 and 5/3).         *)
(***************************************************************************)
RECURSIVE GCD(_, _)
GCD(a, b) == IF b = 0 THEN a ELSE GCD(b, a % b)

Abs(a) == IF a < 0 THEN -a ELSE a

\* the rational n / d (d # 0) in lowest terms
Rat(n, d) ==
    LET g == GCD(Abs(n), Abs(d))
        sign == IF d < 0 THEN -1 ELSE 1
    IN  <<sign * (n \div g), sign * (d \div g)>>

R0 == <<0, 1>>
R1 == <<1, 1>>
R2 == <<2, 1>>
RHalf == <<1, 2>>

RAdd(a, b) == Rat(a[1] * b[2] + b[1] * a[2], a[2] * b[2])
RNeg(a) == <<-a[1], a[2]>>
RSub(a, b) == RAdd(a, RNeg(b))
RMul(a, b) == Rat(a[1] * b[1], a[2] * b[2])
RDiv(a, b) == Rat(a[1] * b[2], a[2] * b[1])
RLess(a, b) == a[1] * b[2] < b[1] * a[2]
RLeq(a, b) == a[1] * b[2] <= b[1] * a[2]

\* the integer square root of a perfect square
ISqrt(n) == CHOOSE k \in 0..n : k * k = n
IsSquare(n) == \E k \in 0..n : k * k = n

\* the rationals whose square root is rational, and that root (libc sqrt)
HasRationalRoot(a) == a[1] >= 0 /\ IsSquare(a[1]) /\ IsSquare(a[2])
sqrt(a) == <<ISqrt(a[1]), ISqrt(a[2])>>

\* Vector / Normal / Point: triples of rationals
new_vector(x, y, z) == <<x, y, z>>
IntVector(x, y, z) == <<Rat(x, 1), Rat(y, 1), Rat(z, 1)>>
dot(u, v) == RAdd(RAdd(RMul(u[1], v[1]), RMul(u[2], v[2])), RMul(u[3], v[3]))
length2(v) == dot(v, v)
normalise(v) ==
    LET l == sqrt(length2(v))
    IN  <<RDiv(v[1], l), RDiv(v[2], l), RDiv(v[3], l)>>

\* AffineMatrix: the identity, and the quarter turn about z followed by a
\* shift (with its inverse), as [turn, shift]
Turn(v, quarter_turns) ==
    IF quarter_turns = 0 THEN v
    ELSE IF quarter_turns = 1 THEN <<RNeg(v[2]), v[1], v[3]>>
    ELSE <<v[2], RNeg(v[1]), v[3]>>

\* Vector.transform(matrix): the shift does not act on directions
transform_vector(v, m) == Turn(v, m.turn)

\* Point.transform(matrix)
transform_point(p, m) ==
    IF m.shift_first
    THEN Turn(<<RAdd(p[1], m.shift[1]), RAdd(p[2], m.shift[2]), RAdd(p[3], m.shift[3])>>, m.turn)
    ELSE LET q == Turn(p, m.turn)
         IN  <<RAdd(q[1], m.shift[1]), RAdd(q[2], m.shift[2]), RAdd(q[3], m.shift[3])>>

\* Spectrum.mul_scalar and Spectrum.add_array, bin by bin
spectrum_mul_scalar(bins, value) == [index \in 1..Len(bins) |-> RMul(bins[index], value)]
spectrum_add_array(bins, array) == [index \in 1..Len(bins) |-> RAdd(bins[index], array[index])]

\* Ray.new_spectrum(): zero in each of the ray's bins
new_spectrum(ray) == [index \in 1..ray.num_samples |-> R0]

\* Ray.spawn_daughter(origin, direction)
spawn_daughter(ray, origin, direction) ==
    [origin |-> origin, direction |-> direction, num_samples |-> ray.num_samples,
     refraction_wavelength |-> ray.refraction_wavelength]

\* Fresnel coefficients without the mean over the two polarisations
_fresnel_unhalved(ci, ct, n1, n2) ==
    LET s == RDiv(RSub(RMul(n1, ci), RMul(n2, ct)), RAdd(RMul(n1, ci), RMul(n2, ct)))
        p == RDiv(RSub(RMul(n1, ct), RMul(n2, ci)), RAdd(RMul(n1, ct), RMul(n2, ci)))
        reflectivity == RAdd(RMul(s, s), RMul(p, p))
    IN  <<reflectivity, RSub(R1, reflectivity)>>

\* Glass._fresnel: <<reflectivity, transmission>>
_fresnel(ci, ct, n1, n2) ==
    LET s == RDiv(RSub(RMul(n1, ci), RMul(n2, ct)), RAdd(RMul(n1, ci), RMul(n2, ct)))
        p == RDiv(RSub(RMul(n1, ct), RMul(n2, ci)), RAdd(RMul(n1, ct), RMul(n2, ci)))
        reflectivity == RMul(RHalf, RAdd(RMul(s, s), RMul(p, p)))
    IN  <<reflectivity, RSub(R1, reflectivity)>>

\* the cosine c1 and the squared cosine c2s of Glass.evaluate_surface
Cosines(self, ray, exiting, normal, to_local) ==
    LET incident == normalise(transform_vector(ray.direction, to_local))
        n == normalise(normal)
        c1 == RNeg(dot(n, incident))
        n1 == IF exiting THEN self.index ELSE R1
        n2 == IF exiting THEN R1 ELSE self.index
        gamma == RDiv(n1, n2)
    IN  [incident |-> incident, normal |-> n, c1 |-> c1, n1 |-> n1, n2 |-> n2,
         gamma |-> gamma,
         c2s |-> RSub(R1, RMul(RMul(gamma, gamma), RSub(R1, RMul(c1, c1))))]

\* I + 2 c1 N, the reflected direction in local space
Reflected(k) ==
    LET temp == RMul(R2, k.c1)
    IN  new_vector(RAdd(k.incident[1], RMul(temp, k.normal[1])),
                   RAdd(k.incident[2], RMul(temp, k.normal[2])),
                   RAdd(k.incident[3], RMul(temp, k.normal[3])))

\* the transmitted direction in local space
Transmitted(k, exiting) ==
    LET temp == IF exiting THEN RAdd(RMul(k.gamma, k.c1), sqrt(k.c2s))
                ELSE RSub(RMul(k.gamma, k.c1), sqrt(k.c2s))
    IN  new_vector(RAdd(RMul(k.gamma, k.incident[1]), RMul(temp, k.normal[1])),
                   RAdd(RMul(k.gamma, k.incident[2]), RMul(temp, k.normal[2])),
                   RAdd(RMul(k.gamma, k.incident[3]), RMul(temp, k.normal[3])))

\* the result of evaluate_surface: the daughter rays spawned, which of them
\* were traced, in order, the number of new_spectrum() calls, the Fresnel
\* coefficients and the spectrum returned
Evaluation(k, tir, spawned, traced, fresh, coefficients, spectrum) ==
    [c1 |-> k.c1, c2s |-> k.c2s, incident |-> k.incident, normal |-> k.normal,
     tir |-> tir, spawned |-> spawned, traced |-> traced, fresh |-> fresh,
     reflectivity |-> coefficients[1], transmission |-> coefficients[2],
     spectrum |-> spectrum]

\* a total internal reflection that also follows a refracted ray
TotalInternalReflection_leaking(world, ray, exiting, k, inside_point, outside_point, to_world) ==
    LET reflected == transform_vector(Reflected(k), to_world)
        origin == IF exiting THEN transform_point(inside_point, to_world)
                  ELSE transform_point(outside_point, to_world)
        other == IF exiting THEN transform_point(outside_point, to_world)
                 ELSE transform_point(inside_point, to_world)
    IN  Evaluation(k, TRUE,
                   <<[role |-> "reflected", ray |-> spawn_daughter(ray, origin, reflected)],
                     [role |-> "transmitted",
                      ray |-> spawn_daughter(ray, other, transform_vector(k.incident, to_world))]>>,
                   <<"reflected", "transmitted">>, 0, <<R1, R0>>,
                   spectrum_add_array(world.reflected, world.transmitted))

\* the branch c2s <= 0 of evaluate_surface
TotalInternalReflection(world, ray, exiting, k, inside_point, outside_point, to_world) ==
    LET reflected == transform_vector(Reflected(k), to_world)
        origin == IF exiting THEN transform_point(inside_point, to_world)
                  ELSE transform_point(outside_point, to_world)
    IN  Evaluation(k, TRUE,
                   <<[role |-> "reflected", ray |-> spawn_daughter(ray, origin, reflected)]>>,
                   <<"reflected">>, 0, <<R1, R0>>, world.reflected)

\* daughter rays spawned from the wrong side of the surface
SpawnDaughters_swapped(ray, exiting, inside_point, outside_point, reflected, transmitted) ==
    IF exiting
    THEN <<[role |-> "reflected", ray |-> spawn_daughter(ray, outside_point, reflected)],
           [role |-> "transmitted", ray |-> spawn_daughter(ray, inside_point, transmitted)]>>
    ELSE <<[role |-> "reflected", ray |-> spawn_daughter(ray, inside_point, reflected)],
           [role |-> "transmitted", ray |-> spawn_daughter(ray, outside_point, transmitted)]>>

\* the two daughter rays of the refracting branch (points and directions in
\* world space)
SpawnDaughters(ray, exiting, inside_point, outside_point, reflected, transmitted) ==
    IF exiting
    THEN <<[role |-> "reflected", ray |-> spawn_daughter(ray, inside_point, reflected)],
           [role |-> "transmitted", ray |-> spawn_daughter(ray, outside_point, transmitted)]>>
    ELSE <<[role |-> "reflected", ray |-> spawn_daughter(ray, outside_point, reflected)],
           [role |-> "transmitted", ray |-> spawn_daughter(ray, inside_point, transmitted)]>>

\* tracing that never culls a daughter ray
TraceRays_uncut(self, world, ray, reflectivity, transmission) ==
    [traced |-> <<"reflected", "transmitted">>,
     fresh |-> 0,
     spectrum |-> spectrum_add_array(spectrum_mul_scalar(world.reflected, reflectivity),
                                     spectrum_mul_scalar(world.transmitted, transmission))]

\* "trace rays and return results": the daughter rays whose coefficient
\* exceeds the cutoff are traced and their spectra combined
TraceRays(self, world, ray, reflectivity, transmission) ==
    LET trace_reflected == RLess(self.cutoff, reflectivity)
        trace_transmitted == RLess(self.cutoff, transmission)
        spectrum == IF trace_reflected
                    THEN spectrum_mul_scalar(world.reflected, reflectivity)
                    ELSE new_spectrum(ray)
    IN  [traced |-> (IF trace_reflected THEN <<"reflected">> ELSE <<>>)
                        \o (IF trace_transmitted THEN <<"transmitted">> ELSE <<>>),
         fresh |-> IF trace_reflected THEN 0 ELSE 1,
         spectrum |-> IF trace_transmitted
                      THEN spectrum_add_array(spectrum,
                               spectrum_mul_scalar(world.transmitted, transmission))
                      ELSE spectrum]

\* Glass.evaluate_surface; world gives the spectrum that tracing the
\* reflected and the transmitted daughter ray returns
evaluate_surface(self, world, ray, exiting, inside_point, outside_point, normal, to_local, to_world) ==
    LET k == Cosines(self, ray, exiting, normal, to_local)
    IN  IF RLeq(k.c2s, R0)
        THEN TotalInternalReflection(world, ray, exiting, k, inside_point, outside_point,
                                     to_world)
        ELSE LET transmitted == Transmitted(k, exiting)
                 coefficients == _fresnel(k.c1, RNeg(dot(k.normal, transmitted)), k.n1, k.n2)
                 spawned == SpawnDaughters(ray, exiting,
                                           transform_point(inside_point, to_world),
                                           transform_point(outside_point, to_world),
                                           transform_vector(Reflected(k), to_world),
                                           transform_vector(transmitted, to_world))
                 out == TraceRays(self, world, ray, coefficients[1], coefficients[2])
             IN  Evaluation(k, FALSE, spawned, out.traced, out.fresh, coefficients,
                            out.spectrum)

\* the inputs of evaluate_surface for which the model's arithmetic is exact:
\* the lengths and the cosine of the refracted ray are rational and no
\* Fresnel denominator is zero
Exact(self, ray, exiting, normal, to_local) ==
    /\ HasRationalRoot(length2(ray.direction))
    /\ HasRationalRoot(length2(normal))
    /\ LET k == Cosines(self, ray, exiting, normal, to_local)
       IN  \/ RLeq(k.c2s, R0)
           \/ /\ HasRationalRoot(k.c2s)
              /\ LET ct == RNeg(dot(k.normal, Transmitted(k, exiting)))
                 IN  /\ RAdd(RMul(k.n1, k.c1), RMul(k.n2, ct)) # R0
                     /\ RAdd(RMul(k.n1, ct), RMul(k.n2, k.c1)) # R0

\* the glasses, rays, surfaces, transforms and worlds of the model
NumBins == 2
DefaultCutoff == <<1, 1000000>>
Glasses ==
    [index : {<<3, 2>>, <<4, 3>>, <<5, 3>>},
     cutoff : {DefaultCutoff, <<1, 10>>, <<97, 100>>}]
Directions ==
    {IntVector(0, 0, 1), IntVector(0, 0, -2), IntVector(3, 0, 4), IntVector(3, 0, -4),
     IntVector(4, 0, 3), IntVector(4, 0, -3)}
IncidentRays ==
    [origin : {IntVector(0, 0, 0)}, direction : Directions, num_samples : {NumBins},
     refraction_wavelength : {220}]
Normals == {IntVector(0, 0, 1), IntVector(0, 0, -1), IntVector(0, 0, 2)}
Identity == [turn |-> 0, shift_first |-> FALSE, shift |-> IntVector(0, 0, 0)]
QuarterTurn == [turn |-> 1, shift_first |-> FALSE, shift |-> IntVector(5, 0, 0)]
QuarterTurnBack == [turn |-> 2, shift_first |-> TRUE, shift |-> IntVector(-5, 0, 0)]
\* <<to_local, to_world>>
Transforms == {<<Identity, Identity>>, <<QuarterTurnBack, QuarterTurn>>}
InsidePoint == IntVector(1, 2, -1)
OutsidePoint == IntVector(1, 2, 1)
Worlds ==
    {[reflected |-> [bin \in 1..NumBins |-> Rat(bin, 1)],
      transmitted |-> [bin \in 1..NumBins |-> Rat(NumBins - bin, 1)]],
     [reflected |-> [bin \in 1..NumBins |-> Rat(bin - 1, 1)],
      transmitted |-> [bin \in 1..NumBins |-> R1]]}

(***************************************************************************)
(* State                                                                   *)
(***************************************************************************)
VARIABLES
    items,      \* the item list of the program (the geometry the hooks consult)
    tree,       \* the tree object and the heap, a record T as above
    status,     \* "fresh", "built", "invalid", "failed", "dead"
    op,         \* the operation that ran last
    pickled,    \* the last result of __getstate__, <<>> when there is none
    orig,       \* the tree as it was when pickled was taken
    call,       \* the last constructor or query call the caller still looks
                \* at: its arguments, the hook calls it made, its result
    objects,    \* the SampledSF objects, in the order they were created
    constant,   \* the ConstantSF object
    interpolated, \* the InterpolatedSF object
    sfcall,     \* the last call on a spectral function: receiver, arguments,
                \* result
    surface     \* the last call of Glass.evaluate_surface: arguments, result

vars == <<items, tree, status, op, pickled, orig, call,
          objects, constant, interpolated, sfcall, surface>>

\* the state of the kd-tree program, and the state outside it
tree_state == <<items, tree, status, op, pickled, orig, call>>
outside_tree == <<objects, constant, interpolated, sfcall, surface>>
outside_spectral == <<items, tree, status, op, pickled, orig, call, surface>>

NoCall == [kind |-> "none"]

\* no call on a spectral function yet
NoSFCall ==
    [kind |-> "none", self |-> PyNone, shape |-> <<>>, ret |-> PyNone, err |-> "none"]

\* the InterpolatedSF of the model: two anchors of a flat spectrum
InterpolatedSF___init__(wavelengths, samples, fast_sample) ==
    [wavelengths |-> wavelengths, samples |-> samples, fast_sample |-> fast_sample]

\* the spectral functions before any call
InitSpectral(value, fast_sample) ==
    /\ objects = <<>>
    /\ constant = ConstantSF___init__(value)
    /\ interpolated = InterpolatedSF___init__(<<120, 360>>, <<1, 1>>, fast_sample)
    /\ sfcall = NoSFCall

\* no call of evaluate_surface yet
NoSurface == [kind |-> "none"]

InitGlass == surface = NoSurface

\* the tree object before its constructor ran
InitTree(lists) ==
    /\ items \in lists
    /\ tree = __cinit__
    /\ status = "fresh"
    /\ op = "new"
    /\ pickled = <<>>
    /\ orig = __cinit__
    /\ call = NoCall

Init ==
    /\ InitTree(ItemLists)
    /\ InitSpectral(1, FALSE)
    /\ InitGlass

\* what the program does after undefined behaviour is not modelled
Defined == ~tree.uninit_read /\ ~tree.bad_free

\* KDTreeCore(items, max_depth, min_items, hit_cost, empty_bonus)
Construct(args, fail) ==
    /\ Defined
    /\ status = "fresh"
    /\ tree' = Leave(__init__(Enter(tree, fail), items, args[1], args[2], args[3], args[4]))
    /\ status' = IF tree'.err = "none" THEN "built"
                 ELSE IF tree'.err = "ValueError" THEN "invalid" ELSE "failed"
    /\ op' = "init"
    /\ call' = [kind |-> "init", args |-> args]
    /\ UNCHANGED <<items, pickled, orig>>
    /\ UNCHANGED outside_tree

\* state = tree.__getstate__()
GetState ==
    /\ Defined
    /\ status = "built"
    /\ pickled' = __getstate__(tree)
    /\ orig' = tree
    /\ op' = "getstate"
    /\ call' = NoCall
    /\ UNCHANGED <<items, tree, status>>
    /\ UNCHANGED outside_tree

\* tree.__setstate__(state), on a new object or on one that was populated
SetState(fail, garbage_leaf) ==
    /\ Defined
    /\ status \in {"fresh", "built", "invalid", "failed"}
    /\ pickled # <<>>
    /\ tree' = Leave(__setstate__(Enter(tree, fail), pickled, garbage_leaf))
    /\ status' = IF tree'.err = "none" THEN "built" ELSE "failed"
    /\ op' = "setstate"
    /\ call' = NoCall
    /\ UNCHANGED <<items, pickled, orig>>
    /\ UNCHANGED outside_tree

\* a hit() that keeps the box of the last ray origin in the object's bounds
Hit_extending_bounds(ray, hit_ids) ==
    /\ Defined
    /\ status = "built"
    /\ LET r == _hit(tree, tree.bounds, ray, hit_ids)
       IN  call' = [kind |-> "hit", ray |-> ray, hit_ids |-> hit_ids,
                     calls |-> r.calls, hit |-> r.hit, visits |-> r.visits]
    /\ op' = "hit"
    /\ tree' = [tree EXCEPT !.bounds =
                    BoxUnion(@, [lower |-> ray.origin, upper |-> ray.origin])]
    /\ UNCHANGED <<items, status, pickled, orig>>
    /\ UNCHANGED outside_tree

\* tree.hit(ray)
Hit(ray, hit_ids) ==
    /\ Defined
    /\ status = "built"
    /\ LET r == _hit(tree, tree.bounds, ray, hit_ids)
       IN  call' = [kind |-> "hit", ray |-> ray, hit_ids |-> hit_ids,
                     calls |-> r.calls, hit |-> r.hit, visits |-> r.visits]
    /\ op' = "hit"
    /\ UNCHANGED <<items, tree, status, pickled, orig>>
    /\ UNCHANGED outside_tree

\* tree.contains(point)
Contains(point) ==
    /\ Defined
    /\ status = "built"
    /\ LET r == _contains(tree, items, tree.bounds, point)
       IN  call' = [kind |-> "contains", point |-> point, calls |-> r.calls, ret |-> r.ret,
                     visits |-> r.visits]
    /\ op' = "contains"
    /\ UNCHANGED <<items, tree, status, pickled, orig>>
    /\ UNCHANGED outside_tree

\* the object is destroyed
Dealloc(garbage_leaf) ==
    /\ Defined
    /\ status # "dead"
    /\ tree' = Leave(__dealloc__(Enter(tree, 0), garbage_leaf))
    /\ status' = "dead"
    /\ op' = "dealloc"
    /\ call' = NoCall
    /\ UNCHANGED <<items, pickled, orig>>
    /\ UNCHANGED outside_tree

\* KDTreeCore.__new__: another object, on the same heap
New ==
    /\ Defined
    /\ status = "dead"
    /\ tree' = [__cinit__ EXCEPT !.heap = tree.heap,
                                 !.uninit_read = tree.uninit_read,
                                 !.bad_free = tree.bad_free]
    /\ status' = "fresh"
    /\ op' = "new"
    /\ call' = NoCall
    /\ UNCHANGED <<items, pickled, orig>>
    /\ UNCHANGED outside_tree

\* the caller is done with the result of the last call
Return ==
    /\ call.kind # "none"
    /\ call' = NoCall
    /\ op' = "return"
    /\ UNCHANGED <<items, tree, status, pickled, orig>>
    /\ UNCHANGED outside_tree

\* ids of the items of the program
ItemIds == {index - 1 : index \in 1..Len(items)}

\* construction (allocations succeed) followed by queries
NextQuery ==
    \/ \E args \in InitArgs : Construct(args, 0)
    \/ \E ray \in Rays, hit_ids \in SUBSET ItemIds : call.kind = "none" /\ Hit(ray, hit_ids)
    \/ \E point \in Points : call.kind = "none" /\ Contains(point)
    \/ Return

SpecQuery == Init /\ [][NextQuery]_vars

\* the life of tree objects: construction, pickling round trips and
\* destruction, where any allocation may fail
NextLife ==
    \/ \E args \in InitArgs, fail \in 0..MaxFail : Construct(args, fail)
    \/ GetState
    \/ \E fail \in 0..MaxFail, garbage_leaf \in BOOLEAN : SetState(fail, garbage_leaf)
    \/ \E garbage_leaf \in BOOLEAN : Dealloc(garbage_leaf)
    \/ New

SpecLife == Init /\ [][NextLife]_vars

(***************************************************************************)
(* The split search of the builder, node by node                           *)
(***************************************************************************)
\* the tree object as __init__ hands it to the first _build
Configured(args) ==
    LET depth == Max(0, args[1])
    IN  [Enter(tree, 0) EXCEPT
             !.settings = [max_depth |-> IF depth = 0 THEN AutoDepth(Len(items)) ELSE depth,
                           min_items |-> Max(1, args[2]),
                           hit_cost |-> Max(1, args[3]),
                           empty_bonus |-> args[4]],
             !.bounds = TreeBounds(items)]

\* _build reaches _split for these node items at this depth
Splits(T, node_items, depth) ==
    ~(depth = T.settings.max_depth \/ Len(node_items) <= T.settings.min_items)

\* the record of a _split call: the node, and the solution returned
SplitCall(T, node_items, bounds, depth) ==
    [kind |-> "split", settings |-> T.settings, items |-> node_items, bounds |-> bounds,
     depth |-> depth, out |-> _split(T, node_items, bounds).ret]

\* self._get_edges(items, axis, &num_edges, &edges), as _split calls it for
\* the items of the root node
GetEdges(axis) ==
    /\ status = "fresh"
    /\ call.kind = "none"
    /\ call' = [kind |-> "edges", items |-> items, axis |-> axis,
                edges |-> _get_edges(Enter(tree, 0), items, axis).ret]
    /\ op' = "edges"
    /\ UNCHANGED <<items, tree, status, pickled, orig>>
    /\ UNCHANGED outside_tree

\* self._split(items, self.bounds), the call of the first _build
SplitRoot(args) ==
    /\ status = "fresh"
    /\ call.kind = "none"
    /\ args[4] >= 0 /\ args[4] <= EB_DEN
    /\ Splits(Configured(args), items, 0)
    /\ call' = SplitCall(Configured(args), items, TreeBounds(items), 0)
    /\ op' = "split"
    /\ UNCHANGED <<items, tree, status, pickled, orig>>
    /\ UNCHANGED outside_tree

\* the _split call of the _build of a child of the node split last
SplitChild(lower) ==
    /\ call.kind = "split"
    /\ ~call.out.is_leaf
    /\ LET T == [Enter(tree, 0) EXCEPT !.settings = call.settings]
           node_items == IF lower THEN call.out.lower_items ELSE call.out.upper_items
           bounds == IF lower THEN call.out.lower_bounds ELSE call.out.upper_bounds
       IN  /\ Splits(T, node_items, call.depth + 1)
           /\ call' = SplitCall(T, node_items, bounds, call.depth + 1)
    /\ op' = "split"
    /\ UNCHANGED <<items, tree, status, pickled, orig>>
    /\ UNCHANGED outside_tree

NextSplit ==
    \/ \E axis \in Axes : GetEdges(axis)
    \/ \E args \in InitArgs : SplitRoot(args)
    \/ \E lower \in BOOLEAN : SplitChild(lower)
    \/ Return

\* boxes whose union is longest along y, and along z with no box edge
\* inside the node on that axis
BoxTallA == Box(0, 2, 0, 2, 0, 1)
BoxTallB == Box(0, 2, 6, 8, 0, 1)
BoxDeepA == Box(0, 1, 0, 2, 0, 8)
BoxDeepB == Box(3, 4, 0, 2, 0, 8)

\* the item lists whose nodes are split
SplitLists ==
    ItemLists \cup {<<Item(0, BoxTallA), Item(1, BoxTallB)>>,
                    <<Item(0, BoxDeepA), Item(1, BoxDeepB)>>}

InitSplit ==
    /\ InitTree(SplitLists)
    /\ InitSpectral(1, FALSE)
    /\ InitGlass

SpecSplit == InitSplit /\ [][NextSplit]_vars

(***************************************************************************)
(* Trees that outgrow the first node array                                 *)
(***************************************************************************)
\* number of slabs each way in the largest grid; the tree of a grid of 5 by
\* 5 slabs has 129 nodes, one more than INITIAL_NODE_COUNT
MaxGrid == 6

\* extent of a grid of k slabs, one unit wide and one unit apart
GridLength(k) == 4 * (k - 1) + 2

\* k slabs across x followed by k slabs across y, all in one layer
Grid(k) ==
    [i \in 1..(2 * k) |->
        [id |-> i - 1,
         box |-> IF i <= k
                 THEN Box(4 * (i - 1), 4 * (i - 1) + 2, 0, GridLength(k), 0, 2)
                 ELSE Box(0, GridLength(k), 4 * (i - k - 1), 4 * (i - k - 1) + 2, 0, 2)]]

GridLists == {Grid(k) : k \in (MaxGrid - 2)..MaxGrid}

InitGrowth == InitTree(GridLists) /\ InitSpectral(1, FALSE) /\ InitGlass

\* KDTreeCore(items, ...), with the outcome of PyMem_Realloc (moves) and
\* the log of the slot writes of the build kept for the caller
ConstructLogged(args, moves) ==
    /\ Defined
    /\ status = "fresh"
    /\ \E T \in {__init__([Enter(tree, 0) EXCEPT !.moves = moves],
                           items, args[1], args[2], args[3], args[4])} :
          /\ tree' = Leave(T)
          /\ call' = [kind |-> "init", args |-> args, moves |-> moves, writes |-> T.writes]
    /\ status' = IF tree'.err = "none" THEN "built"
                 ELSE IF tree'.err = "ValueError" THEN "invalid" ELSE "failed"
    /\ op' = "init"
    /\ UNCHANGED <<items, pickled, orig>>
    /\ UNCHANGED outside_tree

\* construction of large trees, followed by queries
NextGrowth ==
    \/ \E args \in InitArgs, moves \in BOOLEAN : ConstructLogged(args, moves)
    \/ \E ray \in Rays, hit_ids \in {{}, ItemIds} : call.kind = "none" /\ Hit(ray, hit_ids)
    \/ \E point \in Points : call.kind = "none" /\ Contains(point)
    \/ Return

SpecGrowth == InitGrowth /\ [][NextGrowth]_vars

(***************************************************************************)
(* Operations on spectral functions                                        *)
(***************************************************************************)
SFCall(kind, self, shape, ret, err) ==
    [kind |-> kind, self |-> self, shape |-> shape, ret |-> ret, err |-> err]

\* the sample values followed by the model
Followed(o) == \A index \in 1..Len(o.samples) : o.samples[index] = NAN \/ o.samples[index] <= MaxValue

\* SampledSF(min_wavelength, max_wavelength, num_samples, fast_sample)
NewSampledSF(shape, fast_sample) ==
    /\ LET out == SampledSF___init__(objects, shape[1], shape[2], shape[3], fast_sample)
       IN  /\ Len(out.objects) <= MaxObjects
           /\ objects' = out.objects
           /\ sfcall' = SFCall("SampledSF", PyNone, shape, out.ret, out.err)
    /\ UNCHANGED <<constant, interpolated>>
    /\ UNCHANGED outside_spectral

\* objects[self].sample_multiple(min_wavelength, max_wavelength, num_samples)
SampledSFSampleMultiple(self, shape) ==
    /\ objects[self].num_samples >= 1
    /\ LET out == SampledSF_sample_multiple(objects, self, shape[1], shape[2], shape[3])
       IN  /\ Len(out.objects) <= MaxObjects
           /\ objects' = out.objects
           /\ sfcall' = SFCall("SampledSF.sample_multiple", self, shape, out.ret, out.err)
    /\ UNCHANGED <<constant, interpolated>>
    /\ UNCHANGED outside_spectral

\* objects[self].sample_single(min_wavelength, max_wavelength)
SampledSFSampleSingle(self, shape) ==
    /\ objects[self].num_samples >= 1
    /\ LET out == SampledSF_sample_single(objects, self, shape[1], shape[2])
       IN  /\ objects' = out.objects
           /\ sfcall' = SFCall("SampledSF.sample_single", self, shape, out.ret, out.err)
    /\ UNCHANGED <<constant, interpolated>>
    /\ UNCHANGED outside_spectral

\* interpolated.sample_multiple(min_wavelength, max_wavelength, num_samples)
InterpolatedSFSampleMultiple(shape) ==
    /\ LET out == InterpolatedSF_sample_multiple(objects, interpolated,
                                                 shape[1], shape[2], shape[3])
       IN  /\ Len(out.objects) <= MaxObjects
           /\ objects' = out.objects
           /\ sfcall' = SFCall("InterpolatedSF.sample_multiple", PyNone, shape, out.ret, out.err)
    /\ UNCHANGED <<constant, interpolated>>
    /\ UNCHANGED outside_spectral

\* interpolated.sample_single(min_wavelength, max_wavelength)
InterpolatedSFSampleSingle(shape) ==
    /\ LET out == InterpolatedSF_sample_single(interpolated, shape[1], shape[2])
       IN  sfcall' = SFCall("InterpolatedSF.sample_single", PyNone, shape, out.ret, out.err)
    /\ UNCHANGED <<objects, constant, interpolated>>
    /\ UNCHANGED outside_spectral

\* constant.sample_multiple(min_wavelength, max_wavelength, num_samples)
ConstantSFSampleMultiple(shape) ==
    /\ LET out == ConstantSF_sample_multiple(objects, constant, shape[1], shape[2], shape[3])
       IN  /\ Len(out.objects) <= MaxObjects
           /\ objects' = out.objects
           /\ constant' = out.self
           /\ sfcall' = SFCall("ConstantSF.sample_multiple", PyNone, shape, out.ret, "none")
    /\ UNCHANGED interpolated
    /\ UNCHANGED outside_spectral

\* constant.sample_single(min_wavelength, max_wavelength)
ConstantSFSampleSingle(shape) ==
    /\ sfcall' = SFCall("ConstantSF.sample_single", PyNone, shape,
                        ConstantSF_sample_single(constant, shape[1], shape[2]), "none")
    /\ UNCHANGED <<objects, constant, interpolated>>
    /\ UNCHANGED outside_spectral

\* a caller scales a SampledSF it holds: objects[self].mul_scalar(value)
MulScalar(self, value) ==
    /\ Followed(mul_scalar(objects[self], value))
    /\ objects' = [objects EXCEPT ![self] = mul_scalar(@, value)]
    /\ sfcall' = SFCall("mul_scalar", self, <<>>, PyNone, "none")
    /\ UNCHANGED <<constant, interpolated>>
    /\ UNCHANGED outside_spectral

\* a caller accumulates into a SampledSF it holds the bins of another one of
\* the same length: objects[self].add_array(objects[other].samples)
AddArray(self, other) ==
    /\ Len(objects[other].samples) = Len(objects[self].samples)
    /\ Followed(add_array(objects[self], objects[other].samples))
    /\ objects' = [objects EXCEPT ![self] = add_array(@, objects[other].samples)]
    /\ sfcall' = SFCall("add_array", self, <<>>, PyNone, "none")
    /\ UNCHANGED <<constant, interpolated>>
    /\ UNCHANGED outside_spectral

\* values of ConstantSF objects
ConstantValues == {1, 2}

\* the receivers of the calls on SampledSF and InterpolatedSF objects
InitSampled ==
    /\ InitTree({ThreeBoxes})
    /\ \E fast_sample \in BOOLEAN : InitSpectral(1, fast_sample)
    /\ InitGlass

\* the ConstantSF receiver
InitConstant ==
    /\ InitTree({ThreeBoxes})
    /\ \E value \in ConstantValues : InitSpectral(value, FALSE)
    /\ InitGlass

\* the runs followed where objects are resampled
FewObjects == Len(objects') <= MaxSampled

\* SampledSF and InterpolatedSF objects and the calls on them
NextSampled ==
    \/ \E shape \in Shapes, fast_sample \in BOOLEAN :
           NewSampledSF(shape, fast_sample) /\ FewObjects
    \/ \E self \in 1..Len(objects), shape \in Requests :
           SampledSFSampleMultiple(self, shape) /\ FewObjects
    \/ \E self \in 1..Len(objects) : SampledSFSampleSingle(self, ShapeA)
    \/ \E shape \in Requests : InterpolatedSFSampleMultiple(shape) /\ FewObjects
    \/ InterpolatedSFSampleSingle(ShapeA)

\* the ConstantSF object, the calls on it, and what callers do with the
\* SampledSF objects it returned
NextConstant ==
    \/ \E shape \in Shapes : ConstantSFSampleMultiple(shape)
    \/ \E shape \in ValidShapes : ConstantSFSampleSingle(shape)
    \/ \E self \in 1..Len(objects) : MulScalar(self, 2)
    \/ \E self \in 1..Len(objects), other \in 1..Len(objects) : AddArray(self, other)

\* every call that takes a sampling range, on the three kinds of spectral
\* function, as made by callers that share them
NextSampling ==
    \/ \E shape \in BoundaryShapes, fast_sample \in BOOLEAN :
           NewSampledSF(shape, fast_sample) /\ FewObjects
    \/ \E self \in 1..Len(objects), shape \in BoundaryShapes :
           SampledSFSampleMultiple(self, shape) /\ FewObjects
    \/ \E self \in 1..Len(objects) : SampledSFSampleSingle(self, ShapeA)
    \/ \E shape \in BoundaryShapes : InterpolatedSFSampleMultiple(shape) /\ FewObjects
    \/ InterpolatedSFSampleSingle(ShapeA)
    \/ \E shape \in BoundaryShapes : ConstantSFSampleMultiple(shape) /\ FewObjects
    \/ ConstantSFSampleSingle(ShapeA)

SpecSampled == InitSampled /\ [][NextSampled]_vars
SpecConstant == InitConstant /\ [][NextConstant]_vars
SpecSampling == InitSampled /\ [][NextSampling]_vars

(***************************************************************************)
(* Calls of Glass.evaluate_surface                                         *)
(***************************************************************************)
\* glass.evaluate_surface(world, ray, primitive, hit_point, exiting,
\*                        inside_point, outside_point, normal, to_local, to_world)
EvaluateSurface(self, world, ray, exiting, normal, matrices) ==
    /\ surface.kind # "evaluate_surface"
    /\ Exact(self, ray, exiting, normal, matrices[1])
    /\ surface' = [kind |-> "evaluate_surface", self |-> self, world |-> world, ray |-> ray,
                   exiting |-> exiting, inside_point |-> InsidePoint,
                   outside_point |-> OutsidePoint, normal |-> normal,
                   to_local |-> matrices[1], to_world |-> matrices[2],
                   out |-> evaluate_surface(self, world, ray, exiting, InsidePoint,
                                            OutsidePoint, normal, matrices[1], matrices[2])]
    /\ UNCHANGED tree_state
    /\ UNCHANGED <<objects, constant, interpolated, sfcall>>

\* the caller takes the spectrum returned and drops the call
ReturnSpectrum ==
    /\ surface.kind = "evaluate_surface"
    /\ surface' = [kind |-> "returned"]
    /\ UNCHANGED tree_state
    /\ UNCHANGED <<objects, constant, interpolated, sfcall>>

InitSurface ==
    /\ InitTree({ThreeBoxes})
    /\ InitSpectral(1, FALSE)
    /\ InitGlass

NextGlass ==
    \/ \E self \in Glasses, world \in Worlds, ray \in IncidentRays, exiting \in BOOLEAN,
          normal \in Normals, matrices \in Transforms :
           EvaluateSurface(self, world, ray, exiting, normal, matrices)
    \/ ReturnSpectrum

SpecGlass == InitSurface /\ [][NextGlass]_vars

(***************************************************************************)
(* Properties of Glass.evaluate_surface                                    *)
(***************************************************************************)
Called == surface.kind = "evaluate_surface"

\* the world-space points of the last call
WorldInside == transform_point(surface.inside_point, surface.to_world)
WorldOutside == transform_point(surface.outside_point, surface.to_world)

\* u + a v
Axpy(u, a, v) == <<RAdd(u[1], RMul(a, v[1])), RAdd(u[2], RMul(a, v[2])), RAdd(u[3], RMul(a, v[3]))>>

\* 1 - gamma^2 (1 - c1^2) for the last call, gamma = n1 / n2
ClaimedC2S ==
    LET gamma == IF surface.exiting THEN surface.self.index ELSE RDiv(R1, surface.self.index)
        c1 == surface.out.c1
    IN  RSub(R1, RMul(RMul(gamma, gamma), RSub(R1, RMul(c1, c1))))

\* the daughter rays of the last call with the given role
Daughters(role) ==
    {index \in 1..Len(surface.out.spawned) : surface.out.spawned[index].role = role}

WasTraced(role) == \E index \in 1..Len(surface.out.traced) : surface.out.traced[index] = role

\* C17: when c2s = 1 - gamma^2 (1 - c1^2) <= 0, evaluate_surface spawns
\* exactly one daughter ray, the reflected one, with direction I + 2 c1 N
\* (taken to world space), from the world-space inside_point if exiting and
\* from the world-space outside_point otherwise; no transmitted ray is
\* spawned or traced and the spectrum of the traced ray is returned unscaled.
C17_TotalInternalReflection ==
    (Called /\ RLeq(ClaimedC2S, R0)) =>
        /\ Len(surface.out.spawned) = 1
        /\ surface.out.spawned[1].role = "reflected"
        /\ surface.out.spawned[1].ray.direction
              = transform_vector(Axpy(surface.out.incident, RMul(R2, surface.out.c1),
                                      surface.out.normal),
                                 surface.to_world)
        /\ surface.out.spawned[1].ray.origin
              = IF surface.exiting THEN WorldInside ELSE WorldOutside
        /\ surface.out.traced = <<"reflected">>
        /\ surface.out.fresh = 0
        /\ surface.out.spectrum = surface.world.reflected

\* a ray leaving glass of index 3/2 at 53 degrees from the normal, beyond the
\* critical angle, seen through a turned and shifted frame
C17_Witness ==
    /\ Called
    /\ surface.exiting
    /\ surface.self.index = <<3, 2>>
    /\ surface.out.c1 = <<-3, 5>>
    /\ RLess(ClaimedC2S, R0)
    /\ surface.to_world = QuarterTurn
    /\ Len(surface.out.spawned) = 1

\* C18: in the refracting branch the reflected ray is traced exactly when
\* r > cutoff and the transmitted ray exactly when t > cutoff; the result is
\* r trace(reflected) + t trace(transmitted) bin by bin, an untraced term
\* being zero; the base is a spectrum from ray.new_spectrum() exactly when
\* the reflected ray is culled, and the result has the bins of
\* ray.new_spectrum().
C18_ImportanceCulling ==
    (Called /\ ~surface.out.tir) =>
        LET r == surface.out.reflectivity
            t == surface.out.transmission
            zero == new_spectrum(surface.ray)
        IN  /\ WasTraced("reflected") <=> RLess(surface.self.cutoff, r)
            /\ WasTraced("transmitted") <=> RLess(surface.self.cutoff, t)
            /\ Len(surface.out.traced) <= 2
            /\ (surface.out.fresh = 1) <=> ~WasTraced("reflected")
            /\ surface.out.fresh \in {0, 1}
            /\ Len(surface.out.spectrum) = Len(zero)
            /\ \A bin \in 1..Len(zero) :
                  surface.out.spectrum[bin]
                      = RAdd(IF WasTraced("reflected")
                             THEN RMul(r, surface.world.reflected[bin]) ELSE R0,
                             IF WasTraced("transmitted")
                             THEN RMul(t, surface.world.transmitted[bin]) ELSE R0)

\* the reflected ray is culled (r = 1/25 against a cutoff of 1/10) and the
\* transmitted ray traced
C18_Witness ==
    /\ Called
    /\ ~surface.out.tir
    /\ surface.self.cutoff = <<1, 10>>
    /\ surface.out.reflectivity = <<1, 25>>
    /\ surface.out.traced = <<"transmitted">>
    /\ surface.out.fresh = 1

\* C19: every reflected daughter ray starts at the world-space inside_point
\* when exiting and at the world-space outside_point when entering; in the
\* refracting branch the transmitted daughter ray starts at the other point.
C19_DaughterOrigins ==
    Called =>
        /\ Daughters("reflected") # {}
        /\ \A index \in Daughters("reflected") :
              surface.out.spawned[index].ray.origin
                  = IF surface.exiting THEN WorldInside ELSE WorldOutside
        /\ ~surface.out.tir => Daughters("transmitted") # {}
        /\ \A index \in Daughters("transmitted") :
              surface.out.spawned[index].ray.origin
                  = IF surface.exiting THEN WorldOutside ELSE WorldInside

\* a ray entering the glass is split, seen through a turned and shifted frame
C19_Witness ==
    /\ Called
    /\ ~surface.exiting
    /\ ~surface.out.tir
    /\ surface.to_world = QuarterTurn
    /\ WorldInside # surface.inside_point
    /\ Len(surface.out.spawned) = 2

\* the scenario of a ray along +z entering glass of index 3/2 through the
\* given normal, identity transforms
NormalIncidence(normal) ==
    /\ Called
    /\ surface.ray.direction = IntVector(0, 0, 1)
    /\ surface.normal = normal
    /\ surface.self.index = <<3, 2>>
    /\ ~surface.exiting
    /\ surface.to_local = Identity
    /\ surface.to_world = Identity

\* r = 0.04, t = 0.96, transmitted along +z, reflected along -z
SnellAtNormalIncidence ==
    /\ ~surface.out.tir
    /\ surface.out.reflectivity = <<1, 25>>
    /\ surface.out.transmission = <<24, 25>>
    /\ \A index \in Daughters("transmitted") :
          surface.out.spawned[index].ray.direction = IntVector(0, 0, 1)
    /\ \A index \in Daughters("reflected") :
          surface.out.spawned[index].ray.direction = IntVector(0, 0, -1)
    /\ Daughters("transmitted") # {}
    /\ Daughters("reflected") # {}

\* C20 as stated: for a ray with direction (0,0,1) striking a surface with
\* normal N = (0,0,1), n = 1.5, exiting = false, identity transforms:
\* r = 0.04, t = 0.96, transmitted direction (0,0,1), reflected (0,0,-1).
C20_SnellNormalAlongRay == NormalIncidence(IntVector(0, 0, 1)) => SnellAtNormalIncidence

\* C20 amended: the same with the normal facing the ray, N = (0,0,-1):
\* r = 0.04, t = 0.96, transmitted direction (0,0,1), reflected (0,0,-1).
C20_SnellNormalFacingRay == NormalIncidence(IntVector(0, 0, -1)) => SnellAtNormalIncidence

C20_Witness ==
    /\ NormalIncidence(IntVector(0, 0, -1))
    /\ surface.out.c1 = R1
    /\ surface.out.traced = <<"reflected", "transmitted">>

(***************************************************************************)
(* Properties of the spectral functions                                    *)
(***************************************************************************)
\* the shape requested by the last call
Requested == sfcall'.shape

\* C12: SampledSF.sample_multiple(min, max, n) returns the receiver itself,
\* samples untouched, when (min, max, n) is the receiver's own shape; for
\* any other request it returns a new SampledSF with n bins over [min, max]
\* and leaves the receiver's samples as they were.
C12_SampledSFReturnsSelf ==
    [][sfcall'.kind = "SampledSF.sample_multiple" =>
          LET self == sfcall'.self
              ret == sfcall'.ret
          IN  /\ sfcall'.err = "none"
              /\ objects'[self].samples = objects[self].samples
              /\ IF Requested = ShapeOf(objects[self])
                 THEN ret = self /\ Len(objects') = Len(objects)
                 ELSE /\ ret = Len(objects) + 1
                      /\ Len(objects') = Len(objects) + 1
                      /\ ShapeOf(objects'[ret]) = Requested
                      /\ Len(objects'[ret].samples) = Requested[3]]_vars

\* a SampledSF was asked for its own shape after it had been asked for
\* another one
C12_Witness ==
    /\ sfcall.kind = "SampledSF.sample_multiple"
    /\ sfcall.ret = sfcall.self
    /\ sfcall.shape = ShapeOf(objects[sfcall.self])
    /\ Len(objects) >= 2
    /\ ~objects[sfcall.self]._wavelengths.is_none

\* C13: ConstantSF.sample_multiple keeps a one-slot cache - a call whose
\* shape is that of the SampledSF produced last returns that object and
\* creates none; a call with another shape creates a new SampledSF of the
\* requested shape and puts it in the cache slot (so the requests A, B, A
\* create three objects: no object has the shape of the one made before it).
C13_OneSlotCache ==
    /\ [][sfcall'.kind = "ConstantSF.sample_multiple" =>
            LET last == Len(objects)
                ret == sfcall'.ret
            IN  /\ IF last > 0 /\ ShapeOf(objects[last]) = Requested
                   THEN ret = last /\ Len(objects') = last
                   ELSE /\ ret = last + 1
                        /\ Len(objects') = last + 1
                        /\ ShapeOf(objects'[ret]) = Requested
                /\ constant'.cached_samples = ret]_vars
    /\ [](\A k \in 1..Len(objects) - 1 : ShapeOf(objects[k]) # ShapeOf(objects[k + 1]))
    /\ [](constant.cached_samples = Len(objects))

\* the requests A, B, A were served: three objects, the third one cached
C13_Witness ==
    /\ sfcall.kind = "ConstantSF.sample_multiple"
    /\ Len(objects) = 3
    /\ ShapeOf(objects[1]) = ShapeA
    /\ ShapeOf(objects[2]) = ShapeB
    /\ ShapeOf(objects[3]) = ShapeA
    /\ sfcall.ret = 3
    /\ constant.cached_samples = 3

\* C14: every bin of the SampledSF returned by ConstantSF(v).sample_multiple
\* equals v, whatever calls and whatever in-place arithmetic on objects
\* returned earlier came before.
C14_ConstantBinsEqualValue ==
    sfcall.kind = "ConstantSF.sample_multiple" =>
        /\ Len(objects[sfcall.ret].samples) = sfcall.shape[3]
        /\ \A index \in 1..Len(objects[sfcall.ret].samples) :
               objects[sfcall.ret].samples[index] = constant.value

\* the calls that take a sampling shape
ShapeEntryPoints ==
    {"SampledSF", "SampledSF.sample_multiple", "InterpolatedSF.sample_multiple",
     "ConstantSF.sample_multiple"}

\* C15: every entry point that takes a sampling shape rejects a non-positive
\* wavelength, min_wavelength >= max_wavelength and num_samples < 1 with
\* ValueError, creating no SampledSF and caching nothing.
C15_ShapeValidatedAtBoundary ==
    [][(sfcall'.kind \in ShapeEntryPoints /\ ~ValidShape(Requested)) =>
          /\ sfcall'.err = "ValueError"
          /\ sfcall'.ret = PyNone
          /\ objects' = objects
          /\ constant' = constant]_vars

\* the sampling calls
SamplingCalls ==
    {"SampledSF.sample_single", "SampledSF.sample_multiple",
     "InterpolatedSF.sample_single", "InterpolatedSF.sample_multiple",
     "ConstantSF.sample_single", "ConstantSF.sample_multiple"}

\* C16: spectral functions are immutable values - a sampling call leaves
\* every field of its receiver as it was, and a sample_multiple call made
\* while other callers use the same spectral function returns a SampledSF of
\* exactly the requested shape.
C16_SamplingLeavesReceiverUnchanged ==
    [][sfcall'.kind \in SamplingCalls =>
          /\ constant' = constant
          /\ interpolated' = interpolated
          /\ sfcall'.self # PyNone => objects'[sfcall'.self] = objects[sfcall'.self]
          /\ (sfcall'.ret # PyNone /\ sfcall'.kind \in ShapeEntryPoints) =>
                 ShapeOf(objects'[sfcall'.ret]) = Requested]_vars

(***************************************************************************)
(* Properties                                                              *)
(***************************************************************************)
\* the hook call number i of the last query
CallAt(i) == call.calls[i]
NumCalls == Len(call.calls)

\* C1: contains(point) returns the list its contains_leaf call returned when
\* the point lies inside the tree bounds, and an empty list when it does not.
C1_ContainsReturnsLeafList ==
    call.kind = "contains" =>
        IF BoxContains(tree.bounds, call.point)
        THEN NumCalls = 1 /\ call.ret = List(CallAt(1).ret)
        ELSE NumCalls = 0 /\ call.ret = List(<<>>)

\* C2: containment completeness - every item whose box (faces included)
\* contains the point is stored in a leaf that contains(point) handed to
\* contains_leaf.
C2_ContainmentComplete ==
    call.kind = "contains" =>
        \A k \in 1..Len(items) :
            BoxContains(items[k].box, call.point) =>
                \E i \in 1..NumCalls :
                    \E j \in 1..Len(CallAt(i).items) : CallAt(i).items[j] = items[k].id

\* the ray of the last hit query meets the box of item k
RayMeets(k) == full_intersection(items[k].box, call.ray).hit
\* ... at this parametric distance (0 when the origin is inside the box)
RayDistance(k) == Max(full_intersection(items[k].box, call.ray).min_range, 0)
\* the items the ray meets first
Nearest == {k \in 1..Len(items) :
               RayMeets(k) /\ \A m \in 1..Len(items) : RayMeets(m) => RayDistance(k) <= RayDistance(m)}
\* positions of the items stored in the leaf of hook call i
LeafOf(i) == {k \in 1..Len(items) : \E j \in 1..Len(CallAt(i).items) : CallAt(i).items[j] = items[k].id}
\* the leaf of hook call i holds an item the ray meets first
HoldsNearest(i) == LeafOf(i) \cap Nearest # {}
\* the leaf of hook call i holds items the ray meets, all of them later than the first
HoldsOnlyFarther(i) ==
    /\ \E k \in LeafOf(i) : RayMeets(k)
    /\ LeafOf(i) \cap Nearest = {}

\* C3: first-hit ordering - when the ray meets item boxes, hit_leaf is called
\* on a leaf holding a nearest item (unless an earlier leaf reported a hit),
\* and before it is called on any leaf holding only farther items.
C3_FirstHitOrdering ==
    (call.kind = "hit" /\ full_intersection(tree.bounds, call.ray).hit /\ Nearest # {}) =>
        /\ \A j \in 1..NumCalls :
               HoldsOnlyFarther(j) => \E i \in 1..(j - 1) : HoldsNearest(i)
        /\ ~call.hit => \E i \in 1..NumCalls : HoldsNearest(i)

\* C4: in one hit call no hit_leaf call follows one that returned true, and
\* hit returns true exactly when its last hit_leaf call did.
C4_StopsAtFirstHit ==
    call.kind = "hit" =>
        /\ \A i \in 1..(NumCalls - 1) : ~CallAt(i).ret
        /\ call.hit = (NumCalls > 0 /\ CallAt(NumCalls).ret)

\* a hit call that visited two leaves or more and stopped on a reported hit
C4_Witness ==
    /\ call.kind = "hit"
    /\ NumCalls >= 2
    /\ call.hit
    /\ tree._next_node > NumCalls + 2

\* the settings stored by a constructor call with the default arguments on
\* three items: max_depth = ceil(8 + 1.3 ln 3) = 10
ThreeBoxesBuilt ==
    /\ items = ThreeBoxes
    /\ status = "built"
    /\ tree.settings = [max_depth |-> 10, min_items |-> DEFAULT_MIN_ITEMS,
                        hit_cost |-> DEFAULT_HIT_COST, empty_bonus |-> DEFAULT_EMPTY_BONUS]

\* the item-id lists of the leaves handed to the hook, in call order
LeavesVisited == [i \in 1..NumCalls |-> CallAt(i).items]

\* C6: three-box scenario - the ray from (-1, 0.5, 0.5) along +x has hit_leaf
\* called on the leaf holding item 0, then item 1, then item 2, each later
\* leaf only when the earlier ones reported no hit; when item 0 is reported
\* as hit, the first-hit result is the leaf of item 0.
C6_ThreeBoxRayOrder ==
    (ThreeBoxesBuilt /\ call.kind = "hit" /\ call.ray = ScenarioRay) =>
        /\ NumCalls >= 1
        /\ LeavesVisited = SubSeq(<< <<0>>, <<1>>, <<2>> >>, 1, NumCalls)
        /\ \A i \in 1..NumCalls :
               /\ i < NumCalls => ~CallAt(i).ret
               /\ i = NumCalls => (CallAt(i).ret \/ i = 3)
        /\ 0 \in call.hit_ids => (call.hit /\ LeavesVisited = << <<0>> >>)

\* the scenario ray went through all three leaves
C6_Witness ==
    /\ ThreeBoxesBuilt
    /\ call.kind = "hit"
    /\ call.ray = ScenarioRay
    /\ LeavesVisited = << <<0>>, <<1>>, <<2>> >>

\* C7: bounds correctness - the bounds of a constructed tree enclose the box
\* of every supplied item, and no step after the construction changes them.
C7_BoundsEncloseItems ==
    /\ [](status = "built" => \A k \in 1..Len(items) : BoxEncloses(tree.bounds, items[k].box))
    /\ [][status = "built" => tree'.bounds = tree.bounds]_vars

\* a query ran on a tree built from items that do not share one box
C7_Witness ==
    /\ status = "built"
    /\ call.kind \in {"hit", "contains"}
    /\ \E k \in 1..Len(items) : items[k].box # tree.bounds

\* C8: a constructor call with empty_bonus outside [0, 1] raises ValueError
\* and leaves the object as __cinit__ made it (no node array, no bounds);
\* a successful call stores min_items >= 1, hit_cost >= 1, empty_bonus in
\* [0, 1] and max_depth >= 1, where a requested max_depth <= 0 is replaced
\* by ceil(8 + 1.3 ln N) and a positive one is kept.
C8_ConstructorArguments ==
    call.kind = "init" =>
        IF call.args[4] < 0 \/ call.args[4] > EB_DEN
        THEN /\ tree.err = "ValueError"
             /\ tree._nodes = NULL /\ tree._next_node = 0 /\ tree._allocated_nodes = 0
             /\ tree.bounds = __cinit__.bounds
             /\ tree.settings = __cinit__.settings
        ELSE tree.err = "none" =>
             /\ tree.settings.min_items >= 1
             /\ tree.settings.hit_cost >= 1
             /\ tree.settings.empty_bonus >= 0 /\ tree.settings.empty_bonus <= EB_DEN
             /\ tree.settings.max_depth >= 1
             /\ tree.settings.max_depth =
                    IF call.args[1] <= 0
                    THEN (IF Len(items) = 1 THEN 8 ELSE IF Len(items) = 2 THEN 9
                          ELSE IF Len(items) <= 4 THEN 10 ELSE 11)
                    ELSE call.args[1]

\* a call with requested depth, leaf threshold and hit cost below their minimum succeeded
C8_Witness ==
    /\ call.kind = "init"
    /\ call.args[1] < 0 /\ call.args[2] < 1 /\ call.args[3] < 1
    /\ status = "built"
    /\ tree._next_node >= 1

\* what a tree object holds, slot by slot: kind, split and upper child of a
\* branch, item ids of a leaf (fields never written are left out)
View(T) ==
    [k \in 1..T._next_node |->
        IF T.slots[k].type = LEAF
        THEN [type |-> LEAF, split |-> 0, count |-> T.slots[k].count, ids |-> LeafItems(T, k - 1)]
        ELSE [type |-> T.slots[k].type, split |-> T.slots[k].split,
              count |-> T.slots[k].count, ids |-> <<>>]]

\* C5: serialisation round trip - after __setstate__(T.__getstate__()) on a
\* new or a populated object, the node array has the length of T's and slot
\* by slot the same kind, split, upper child and item ids, the bounds and
\* the settings are those of T, and hit and contains make the same hook
\* calls with the same arguments as on T.
C5_RoundTrip ==
    (op = "setstate" /\ tree.err = "none") =>
        /\ tree._next_node = orig._next_node
        /\ View(tree) = View(orig)
        /\ tree.bounds = orig.bounds
        /\ tree.settings = orig.settings
        /\ \A ray \in Rays, hit_ids \in SUBSET ItemIds :
               _hit(tree, tree.bounds, ray, hit_ids) = _hit(orig, orig.bounds, ray, hit_ids)
        /\ \A point \in Points :
               _contains(tree, items, tree.bounds, point) = _contains(orig, items, orig.bounds, point)

\* a tree with branches was restored
C5_Witness ==
    /\ op = "setstate"
    /\ tree.err = "none"
    /\ tree._next_node >= 5
    /\ pickled = __getstate__(tree)

\* no node array, no slot, no live allocation
TornDown(T) ==
    /\ T._nodes = NULL /\ T._next_node = 0 /\ T._allocated_nodes = 0 /\ T.slots = <<>>
    /\ DOMAIN T.heap = {}

\* the object and the heap, without the bookkeeping of the model
Object(T) == <<T._nodes, T.slots, T._allocated_nodes, T._next_node, T.bounds, T.settings, T.heap>>

\* C9: allocation-failure atomicity - an operation that ends in MemoryError
\* leaves the tree as it was before the operation or fully torn down, and no
\* slot whose fields were never written is read later.
C9_AllocationFailureAtomic ==
    /\ [][tree'.err = "MemoryError" => (Object(tree') = Object(tree) \/ TornDown(tree'))]_vars
    /\ [](~tree.uninit_read)

\* C10: buffer ownership - no pointer is freed that is not a live allocation
\* (no double free, no free of a pointer never allocated), and a destroyed
\* tree has no node array, no slots and no live allocation left (no leak).
C10_BufferOwnership ==
    /\ ~tree.bad_free
    /\ status = "dead" => TornDown(tree)

Built == status = "built" /\ Defined /\ tree.err = "none"

NodeIds(T) == 0..(T._next_node - 1)
IsLeaf(T, id) == T.slots[id + 1].type = LEAF
IsBranch(T, id) == ~IsLeaf(T, id)
Branches(T) == {id \in NodeIds(T) : IsBranch(T, id)}
Leaves(T) == {id \in NodeIds(T) : IsLeaf(T, id)}
UpperChild(T, id) == T.slots[id + 1].count

RECURSIVE SubtreeEnd(_, _, _)
\* the index after the last node of the subtree at id, following lower
\* children at id + 1 and upper children at the stored index; -1 when the
\* links leave the used nodes or do not nest (fuel bounds the walk)
SubtreeEnd(T, id, fuel) ==
    IF fuel = 0 \/ id \notin NodeIds(T) THEN -1
    ELSE IF IsLeaf(T, id) THEN id + 1
    ELSE IF SubtreeEnd(T, id + 1, fuel - 1) # UpperChild(T, id) THEN -1
    ELSE SubtreeEnd(T, UpperChild(T, id), fuel - 1)

\* the branches that name id as a child
Parents(T, id) == {b \in Branches(T) : id = b + 1 \/ id = UpperChild(T, b)}

\* C21: in every tree produced by the builder, and in every tree restored
\* from a pickled builder output, the root is node 0; for every branch at
\* index i the lower child is node i + 1, the lower subtree occupies exactly
\* the indices i + 1 .. u - 1 with u the stored upper child index,
\* i + 1 < u < number of used nodes, the type is the split axis in {0, 1, 2};
\* every node but the root is the child of exactly one branch.
C21_NodeLayout ==
    Built =>
        /\ tree._next_node >= 1
        /\ Len(tree.slots) = tree._next_node
        /\ SubtreeEnd(tree, ROOT_NODE, tree._next_node) = tree._next_node
        /\ Parents(tree, ROOT_NODE) = {}
        /\ \A id \in Branches(tree) :
              /\ tree.slots[id + 1].type \in Axes
              /\ id + 1 < UpperChild(tree, id)
              /\ UpperChild(tree, id) < tree._next_node
              /\ SubtreeEnd(tree, id + 1, tree._next_node) = UpperChild(tree, id)
        /\ \A id \in NodeIds(tree) \ {ROOT_NODE} : Cardinality(Parents(tree, id)) = 1

\* a restored tree with a branch whose lower subtree has several nodes
C21_Witness ==
    /\ Built
    /\ op = "setstate"
    /\ \E id \in Branches(tree) : UpperChild(tree, id) > id + 2

(***************************************************************************)
(* Properties of the split search                                          *)
(***************************************************************************)
\* C22: in the sorted candidate-edge array of any item list and axis the
\* edge values are non-decreasing, and where an upper edge and a lower edge
\* have the same value the upper edge comes before the lower edge.
C22_EdgeOrdering ==
    call.kind = "edges" =>
        /\ Len(call.edges) = 2 * Len(call.items)
        /\ \A i, j \in 1..Len(call.edges) :
              i < j =>
                 /\ call.edges[i].value <= call.edges[j].value
                 /\ (call.edges[i].value = call.edges[j].value
                        /\ call.edges[j].is_upper_edge) => call.edges[i].is_upper_edge

\* the node of the last _split call
SplitCalled == call.kind = "split"

\* surface area of the part of a box below / above a plane
AreaBelow(b, axis, split) ==
    surface_area([lower |-> b.lower, upper |-> [b.upper EXCEPT ![axis + 1] = split]])
AreaAbove(b, axis, split) ==
    surface_area([lower |-> [b.lower EXCEPT ![axis + 1] = split], upper |-> b.upper])

\* 1 + bonus (A_lo n_lo + A_hi n_hi) / A hit_cost, with bonus = 1 - empty_bonus
\* when a side is empty; times EB_DEN A, as all costs of the model
ClaimedCost(cfg, b, axis, split, n_lo, n_hi) ==
    LET bonus == IF n_lo = 0 \/ n_hi = 0 THEN EB_DEN - cfg.empty_bonus ELSE EB_DEN
    IN  EB_DEN * surface_area(b)
        + bonus * (AreaBelow(b, axis, split) * n_lo + AreaAbove(b, axis, split) * n_hi)
                * cfg.hit_cost

\* |items| hit_cost on the same scale
ClaimedLeafCost == Len(call.items) * call.settings.hit_cost * EB_DEN * surface_area(call.bounds)

\* the candidates evaluated on an axis in the last call
EvaluatedOn(axis) ==
    {k \in 1..Len(call.out.evaluated) : call.out.evaluated[k].axis = axis}

\* an evaluated candidate on the axis beats the leaf cost
AxisHasSplit(axis) ==
    \E k \in EvaluatedOn(axis) : call.out.evaluated[k].cost < ClaimedLeafCost

\* the item edges strictly inside the node on an axis
EdgesInside(axis) ==
    {e \in 1..(2 * Len(call.items)) :
        LET item == call.items[(e + 1) \div 2]
            value == IF e % 2 = 1 THEN item.box.lower[axis + 1] ELSE item.box.upper[axis + 1]
        IN  call.bounds.lower[axis + 1] < value /\ value < call.bounds.upper[axis + 1]}

\* the longest axis of the node, the first among equals
Longest ==
    CHOOSE a \in Axes :
        /\ \A b \in Axes : Extent(call.bounds, a) >= Extent(call.bounds, b)
        /\ \A b \in Axes : b < a => Extent(call.bounds, a) > Extent(call.bounds, b)

\* C23: _split tries the axes longest, (longest + 1) % 3, (longest + 2) % 3
\* and stops at the first axis with a valid candidate; it returns a split
\* only if a candidate edge strictly inside the node bounds has cost
\* 1 + bonus (A_lo n_lo + A_hi n_hi) / A hit_cost strictly below the leaf
\* cost |items| hit_cost; the split returned is a minimum-cost candidate of
\* its axis; when no candidate on any axis beats the leaf cost there is no
\* split.  (n_lo and n_hi are the counts of the sweep.)
C23_SplitSelection ==
    SplitCalled =>
        LET out == call.out
            order == <<Longest, (Longest + 1) % 3, (Longest + 2) % 3>>
            n == Len(out.tried)
        IN  /\ n \in 1..3
            /\ out.tried = SubSeq(order, 1, n)
            /\ \A k \in 1..(n - 1) : ~AxisHasSplit(out.tried[k])
            /\ \A k \in 1..Len(out.evaluated) :
                  LET e == out.evaluated[k]
                  IN  /\ \E j \in 1..n : out.tried[j] = e.axis
                      /\ call.bounds.lower[e.axis + 1] < e.split
                      /\ e.split < call.bounds.upper[e.axis + 1]
                      /\ e.cost = ClaimedCost(call.settings, call.bounds, e.axis, e.split,
                                              e.lower_count, e.upper_count)
            /\ \A j \in 1..n :
                  Cardinality(EvaluatedOn(out.tried[j])) = Cardinality(EdgesInside(out.tried[j]))
            /\ out.is_leaf <=> (n = 3 /\ \A a \in Axes : ~AxisHasSplit(a))
            /\ ~out.is_leaf =>
                  /\ out.axis = out.tried[n]
                  /\ out.cost < ClaimedLeafCost
                  /\ \E k \in EvaluatedOn(out.axis) :
                        /\ out.evaluated[k].split = out.split
                        /\ out.evaluated[k].cost = out.cost
                  /\ \A k \in EvaluatedOn(out.axis) : out.cost <= out.evaluated[k].cost

\* the longest axis z has no edge inside the node, the next axis tried is x
\* and gives the split
C23_Witness ==
    /\ SplitCalled
    /\ ~call.out.is_leaf
    /\ call.out.tried = <<Z_AXIS, X_AXIS>>
    /\ call.out.axis = X_AXIS
    /\ Cardinality(EvaluatedOn(X_AXIS)) >= 2

RECURSIVE Pick(_, _, _)
\* the elements of seq at the positions of S that are >= k, in order
Pick(seq, S, k) ==
    IF k > Len(seq) THEN <<>>
    ELSE IF k \in S THEN <<seq[k]>> \o Pick(seq, S, k + 1)
    ELSE Pick(seq, S, k + 1)

\* positions of the items of a list that reach below / above a plane
StartBelow(list, axis, split) == {k \in 1..Len(list) : list[k].box.lower[axis + 1] < split}
EndAbove(list, axis, split) == {k \in 1..Len(list) : list[k].box.upper[axis + 1] > split}

\* C25: at a branch with chosen (axis, split) the lower child is built from
\* exactly the items with box.lower[axis] < split and the upper child from
\* exactly the items with box.upper[axis] > split, each in input order
\* (straddling items are in both); the children's bounds are the parent
\* bounds cut at split on that axis, all other coordinates unchanged.
C25_ItemPartition ==
    (SplitCalled /\ ~call.out.is_leaf) =>
        LET out == call.out
        IN  /\ out.lower_items = Pick(call.items, StartBelow(call.items, out.axis, out.split), 1)
            /\ out.upper_items = Pick(call.items, EndAbove(call.items, out.axis, out.split), 1)
            /\ out.lower_bounds.lower = call.bounds.lower
            /\ out.upper_bounds.upper = call.bounds.upper
            /\ \A a \in Axes :
                  /\ out.lower_bounds.upper[a + 1]
                        = IF a = out.axis THEN out.split ELSE call.bounds.upper[a + 1]
                  /\ out.upper_bounds.lower[a + 1]
                        = IF a = out.axis THEN out.split ELSE call.bounds.lower[a + 1]

\* a split with an item on both sides, one only below and one only above
C25_Witness ==
    /\ SplitCalled
    /\ ~call.out.is_leaf
    /\ StartBelow(call.items, call.out.axis, call.out.split)
          \cap EndAbove(call.items, call.out.axis, call.out.split) # {}
    /\ Len(call.out.lower_items) = 2
    /\ Len(call.out.upper_items) = 2
    /\ Len(call.items) = 3

\* C26: at every candidate edge at which a cost is evaluated, lower_count is
\* the number of items with box.lower[axis] < split and upper_count the
\* number of items with box.upper[axis] > split; the counts in the cost of
\* the selected split are the sizes of the lists the partition produces.
C26_SweepCountsMatchPartition ==
    SplitCalled =>
        /\ \A k \in 1..Len(call.out.evaluated) :
              LET e == call.out.evaluated[k]
              IN  /\ e.lower_count = Cardinality(StartBelow(call.items, e.axis, e.split))
                  /\ e.upper_count = Cardinality(EndAbove(call.items, e.axis, e.split))
        /\ ~call.out.is_leaf =>
              /\ call.out.lower_count = Len(call.out.lower_items)
              /\ call.out.upper_count = Len(call.out.upper_items)

(***************************************************************************)
(* Properties of the built tree: what each node was built from             *)
(***************************************************************************)
RECURSIVE BuiltFrom(_, _, _, _, _)
\* the nodes of the subtree at id with the items and the depth of the _build
\* call that made each of them, replayed from the stored axes and splits
BuiltFrom(T, id, node_items, depth, fuel) ==
    IF fuel = 0 \/ id \notin NodeIds(T) THEN {}
    ELSE IF IsLeaf(T, id) THEN {[id |-> id, items |-> node_items, depth |-> depth]}
    ELSE LET axis == T.slots[id + 1].type
             split == T.slots[id + 1].split
         IN  {[id |-> id, items |-> node_items, depth |-> depth]}
                \cup BuiltFrom(T, id + 1, Pick(node_items, StartBelow(node_items, axis, split), 1),
                               depth + 1, fuel - 1)
                \cup BuiltFrom(T, UpperChild(T, id), Pick(node_items, EndAbove(node_items, axis, split), 1),
                               depth + 1, fuel - 1)

\* every node of the tree with the items and depth it was built from
BuildCalls == BuiltFrom(tree, ROOT_NODE, items, 0, tree._next_node)

\* the ids of a list of items, in order
IdsOf(list) == [index \in 1..Len(list) |-> list[index].id]

\* the tree came out of the constructor
Constructed == Built /\ op \in {"init", "hit", "contains", "return"}

\* C24: _build emits a leaf holding exactly the ids of its items, in the same
\* order, whenever depth = max_depth or the item count is <= min_items; so in
\* every built tree no node lies deeper than max_depth and every branch was
\* built from more than min_items items (the build has then terminated).
C24_LeafEmissionAndDepthBound ==
    Constructed =>
        /\ {c.id : c \in BuildCalls} = NodeIds(tree)
        /\ \A c \in BuildCalls :
              /\ c.depth <= tree.settings.max_depth
              /\ (c.depth = tree.settings.max_depth \/ Len(c.items) <= tree.settings.min_items)
                    => IsLeaf(tree, c.id)
              /\ IsLeaf(tree, c.id) => LeafItems(tree, c.id) = IdsOf(c.items)
              /\ IsBranch(tree, c.id) => Len(c.items) > tree.settings.min_items

\* a tree with a branch and, at max_depth, a leaf of more than min_items items
C24_Witness ==
    /\ Constructed
    /\ Branches(tree) # {}
    /\ \E c \in BuildCalls :
          /\ IsLeaf(tree, c.id)
          /\ c.depth = tree.settings.max_depth
          /\ Len(c.items) > tree.settings.min_items

\* C29: for every item list and every accepted parameter setting, each
\* supplied item's id is stored in at least one leaf of the built tree, also
\* for items of zero thickness lying on a chosen split plane, and every id
\* stored in a leaf is the id of a supplied item.
C29_ItemPreservation ==
    Constructed =>
        /\ \A k \in ItemIds : \E id \in Leaves(tree) :
              \E index \in 1..Len(LeafItems(tree, id)) : LeafItems(tree, id)[index] = k
        /\ \A id \in Leaves(tree) :
              \A index \in 1..Len(LeafItems(tree, id)) : LeafItems(tree, id)[index] \in ItemIds

(***************************************************************************)
(* Properties of the traversals                                            *)
(***************************************************************************)
\* a hit() call on a built tree has returned
HitCalled == Built /\ call.kind = "hit"

\* positions in the log of the hit traversal at which node is entered
Entries(node) == {j \in 1..Len(call.visits) : call.visits[j].node = node}

\* node is entered once, after position k, with the range [lo, hi]
EnteredWith(node, k, lo, hi) ==
    /\ Cardinality(Entries(node)) = 1
    /\ \A j \in Entries(node) :
          /\ j > k
          /\ call.visits[j].min_range = lo
          /\ call.visits[j].max_range = hi

\* distance along the ray to the plane at s, for a direction component of
\* -1 or 1
PlaneDistance(s, o, d) == IF d > 0 THEN (s - o) \div d ELSE (o - s) \div (-d)

\* the case analysis of the claim for the branch entered at position k
BranchCase(k) ==
    LET v == call.visits[k]
        a == tree.slots[v.node + 1].type
        s == tree.slots[v.node + 1].split
        o == call.ray.origin[a + 1]
        d == call.ray.direction[a + 1]
        lower == v.node + 1
        upper == UpperChild(tree, v.node)
        t_min == v.min_range
        t_max == v.max_range
    IN  IF d = 0
        THEN IF o < s
             THEN EnteredWith(lower, k, t_min, t_max) /\ Entries(upper) = {}
             ELSE EnteredWith(upper, k, t_min, t_max) /\ Entries(lower) = {}
        ELSE LET t_split == PlaneDistance(s, o, d)
                 near_is_lower == o < s \/ (o = s /\ d < 0)
                 near == IF near_is_lower THEN lower ELSE upper
                 far == IF near_is_lower THEN upper ELSE lower
             IN  IF t_split > t_max \/ t_split <= 0
                 THEN EnteredWith(near, k, t_min, t_max) /\ Entries(far) = {}
                 ELSE IF t_split < t_min
                 THEN EnteredWith(far, k, t_min, t_max) /\ Entries(near) = {}
                 ELSE /\ EnteredWith(near, k, t_min, t_split)
                      /\ \A j \in Entries(near) :
                            IF call.visits[j].hit
                            THEN Entries(far) = {} /\ v.hit
                            ELSE EnteredWith(far, j, t_split, t_max)

\* C27: at a branch with axis a and split s, with o = origin[a],
\* d = direction[a] and range [t_min, t_max]: if d = 0 only the lower child
\* is visited when o < s and only the upper child otherwise; else with
\* t_split = (s - o) / d and near = lower iff (o < s or (o = s and d < 0)),
\* only near is visited with [t_min, t_max] when t_split > t_max or
\* t_split <= 0, only far with [t_min, t_max] when t_split < t_min, and
\* otherwise near with [t_min, t_split] and, if it reports no hit, far with
\* [t_split, t_max]; hit_leaf receives the max of the range with which its
\* leaf was entered.
C27_BranchTraversal ==
    HitCalled =>
        /\ \A k \in 1..Len(call.visits) :
              IsBranch(tree, call.visits[k].node) => BranchCase(k)
        /\ Len(call.calls)
              = Cardinality({k \in 1..Len(call.visits) : IsLeaf(tree, call.visits[k].node)})
        /\ \A i \in 1..Len(call.calls) :
              /\ IsLeaf(tree, call.calls[i].node)
              /\ EnteredWith(call.calls[i].node, 0,
                             call.visits[CHOOSE j \in Entries(call.calls[i].node) : TRUE].min_range,
                             call.calls[i].max_range)

\* a branch whose near child was searched up to the plane without a hit and
\* whose far child was then searched from the plane on
C27_Witness ==
    /\ HitCalled
    /\ \E k \in 1..Len(call.visits) :
          LET v == call.visits[k]
              a == tree.slots[v.node + 1].type
              d == call.ray.direction[a + 1]
          IN  /\ IsBranch(tree, v.node)
              /\ d # 0
              /\ Entries(v.node + 1) # {}
              /\ Entries(UpperChild(tree, v.node)) # {}
              /\ \E i \in 1..Len(call.calls) :
                    /\ call.calls[i].max_range < v.max_range
                    /\ call.calls[i].max_range > v.min_range
                    /\ ~call.calls[i].ret

\* a contains() call on a built tree has returned
ContainsCalled == Built /\ call.kind = "contains"

RECURSIVE Descent(_, _, _, _)
\* the nodes from id down to a leaf, taking at each branch the lower child
\* when the point is below the plane and the upper child otherwise
Descent(T, id, point, fuel) ==
    IF fuel = 0 THEN <<>>
    ELSE IF IsLeaf(T, id) THEN <<id>>
    ELSE IF point[T.slots[id + 1].type + 1] < T.slots[id + 1].split
    THEN <<id>> \o Descent(T, id + 1, point, fuel - 1)
    ELSE <<id>> \o Descent(T, UpperChild(T, id), point, fuel - 1)

\* the depth of the deepest node of the tree
Height == CHOOSE h \in {c.depth : c \in BuildCalls} : \A c \in BuildCalls : c.depth <= h

\* C30: for every point inside the tree bounds, contains(point) invokes
\* contains_leaf on exactly one leaf, reached by taking the lower child when
\* point[axis] < split and the upper child otherwise (a point on a split
\* plane goes to the upper child), after visiting at most depth + 1 nodes;
\* a point outside the bounds invokes contains_leaf on no leaf.
C30_SingleLeafDescent ==
    ContainsCalled =>
        IF BoxContains(tree.bounds, call.point)
        THEN /\ Len(call.calls) = 1
             /\ call.visits = Descent(tree, ROOT_NODE, call.point, tree._next_node)
             /\ IsLeaf(tree, call.calls[1].node)
             /\ call.calls[1].node = call.visits[Len(call.visits)]
             /\ call.calls[1].point = call.point
             /\ Len(call.visits) <= Height + 1
        ELSE call.calls = <<>> /\ call.visits = <<>>

\* a point on the split plane of a branch it passed, sent to the upper child
C30_Witness ==
    /\ ContainsCalled
    /\ \E k \in 1..(Len(call.visits) - 1) :
          LET node == call.visits[k]
          IN  /\ IsBranch(tree, node)
              /\ call.point[tree.slots[node + 1].type + 1] = tree.slots[node + 1].split
              /\ call.visits[k + 1] = UpperChild(tree, node)
    /\ Len(call.calls) = 1

(***************************************************************************)
(* Properties of the node array                                            *)
(***************************************************************************)
\* a constructor call with its log of slot writes has returned
BuildLogged == call.kind = "init" /\ status = "built"

====
